---- MODULE Spec2Model ----
(***************************************************************************)
(* A model of the screenshot capture core of eyes.sdk.javascript:          *)
(*   - the viewport sizer   (EyesSeleniumUtils.setViewportSize),           *)
(*   - the region tiler     (Region.getSubRegions),                        *)
(*   - the image buffer     (MutableImage lazy parse / pack),              *)
(*   - the capture pipeline (EyesSeleniumUtils.getScreenshot),             *)
(*   - one viewport capture (EyesSeleniumUtils._captureViewport),          *)
(*   - the operations of a region (Region.offset, scale, intersect).       *)
(* Each component has its own specification over its own variables.        *)
(***************************************************************************)
EXTENDS Integers, Sequences, FiniteSets, TLC

\* The viewport sizer
VARIABLES
    requiredSize,            \* the requested viewport size
    windowSize,              \* the browser's window size (driver state)
    pc,                      \* the callback of setViewportSize that runs next
    phase,                   \* "coarse1", "coarse2" or "zoom"
    actualViewportSize,      \* the most recently measured viewport size
    browserSize,             \* the window size read by window().getSize()
    requiredBrowserSize,     \* the window size of the current resize request
    retries,                 \* _setBrowserSize: retries left
    widthDiff, heightDiff,   \* _setWindowSize parameters
    widthStep, heightStep,
    currWidthChange, currHeightChange,
    retriesLeft,
    lastRequiredBrowserSize, \* <<>> is null, <<s>> is the size s
    outcome,                 \* "pending", "resolved", "rejected" or "hung"
    error,                   \* the rejection reason
    setSizeCalls,            \* probe: setSize calls of the current resize request
    lastRequest,             \* probe: "none", "honored" or "abandoned"
    everHonored,             \* probe: some resize request was honored
    nMeasure,                \* probe: viewport measurements (saturating)
    nRequests,               \* probe: resize requests (saturating)
    nudges,                  \* probe: resize requests of the stepwise search
    movedWindow,             \* probe: window().setPosition was called
    moveFailed,              \* probe: window().setPosition rejected
    readWindow               \* probe: window().getSize was called

sizerVars == <<requiredSize, windowSize, pc, phase, actualViewportSize, browserSize,
               requiredBrowserSize, retries, widthDiff, heightDiff, widthStep,
               heightStep, currWidthChange, currHeightChange, retriesLeft,
               lastRequiredBrowserSize, outcome, error, setSizeCalls, lastRequest,
               everHonored, nMeasure, nRequests, nudges, movedWindow, moveFailed,
               readWindow>>

\* The region tiler
VARIABLES
    containerRegion,   \* the region getSubRegions is called on
    subRegionSize,     \* the requested tile size
    isFixedSize,       \* the tiling policy
    tilerPc,           \* "call" or "returned"
    subRegions,        \* the tiles returned
    tilerThrew         \* an ArgumentGuard threw

tilerVars == <<containerRegion, subRegionSize, isFixedSize, tilerPc, subRegions,
               tilerThrew>>

\* The image buffer
VARIABLES
    disabled,          \* the module's "disabled" flag (no fs.open)
    imageBuffer,       \* _imageBuffer: <<>> is null, <<b>> the encoded bytes b
    isParsed,          \* _isParsed
    imageBmp,          \* _imageBmp: <<>> is undefined, <<g>> the pixel grid g
    imageWidth,        \* _width
    imageHeight,       \* _height
    calls,             \* the operations started and not yet settled
    nOps,              \* operations started so far
    lastOp,            \* probe: the operation started last
    parseCalls,        \* probe: invocations of ImageUtils.parseImage
    packCalls          \* probe: invocations of ImageUtils.packImage

imageVars == <<disabled, imageBuffer, isParsed, imageBmp, imageWidth, imageHeight,
               calls, nOps, lastOp, parseCalls, packCalls>>

\* The capture pipeline
VARIABLES
    fullPage, hideScrollbars, useCssTransition, checkFrameOrElement,
    hasRegionProvider, pageSize, bodyStyledHidden, docOverflow, bodyOverflow,
    scrollPosition, preDocOverflow, preBodyOverflow, preScrollPosition,
    originalPosition, originalOverflow, originalBodyOverflow, entirePageSize,
    pixelRatio, regionInScreenshot, imageObject, screenshot, screenshotParts, partPc,
    parts, currentPosition, shotPc, shotOutcome, shotError, tilingRan, restorations,
    defaulted

shotVars == <<fullPage, hideScrollbars, useCssTransition, checkFrameOrElement,
             hasRegionProvider, pageSize, bodyStyledHidden, docOverflow,
             bodyOverflow, scrollPosition, preDocOverflow, preBodyOverflow,
             preScrollPosition, originalPosition, originalOverflow,
             originalBodyOverflow, entirePageSize, pixelRatio, regionInScreenshot,
             imageObject, screenshot, screenshotParts, partPc, parts,
             currentPosition, shotPc, shotOutcome, shotError, tilingRan,
             restorations, defaulted>>

\* One viewport capture
VARIABLES
    captureArgs,        \* the arguments of _captureViewport
    rawSize,            \* the size of the image browser.takeScreenshot() gives
    pageScroll,         \* the scroll offset of the page
    capturePc,          \* the callback of the chain that runs next
    mutableImage,       \* <<>> before the capture, <<s>> the image, of size s
    scaleRatioInverse,  \* scaleRatio: the ratio 1 / n is held as n
    rotationDegrees,    \* the degrees the image is to be rotated by
    callInFlight,       \* the call whose promise the chain waits for, "" if none
    callsMade,          \* probe: the calls made, in the order they were made
    scaledRegion,       \* probe: the region cropImage was called with
    coordinates,        \* the position the image is tagged with, <<>> if none
    captureOutcome      \* "pending", "resolved" or "rejected"

captureVars == <<captureArgs, rawSize, pageScroll, capturePc, mutableImage,
                 scaleRatioInverse, rotationDegrees, callInFlight, callsMade,
                 scaledRegion, coordinates, captureOutcome>>

\* Operations on one region
VARIABLES
    thisRegion,        \* <<>> before construction, <<r>> the region r
    regionParts,       \* the sub-regions getSubRegions returned last
    regionThrew,       \* an ArgumentGuard threw
    regionOps,         \* operations applied so far
    lastRegionOp       \* probe: the operation applied last, and its argument

regionVars == <<thisRegion, regionParts, regionThrew, regionOps, lastRegionOp>>

otherThanSizer == <<tilerVars, imageVars, shotVars, captureVars, regionVars>>
otherThanTiler == <<sizerVars, imageVars, shotVars, captureVars, regionVars>>
otherThanImage == <<sizerVars, tilerVars, shotVars, captureVars, regionVars>>
otherThanShot == <<sizerVars, tilerVars, imageVars, captureVars, regionVars>>
otherThanCapture == <<sizerVars, tilerVars, imageVars, shotVars, regionVars>>
otherThanRegion == <<sizerVars, tilerVars, imageVars, shotVars, captureVars>>

Size(w, h) == [width |-> w, height |-> h]

\* Math.abs
Abs(n) == IF n < 0 THEN 0 - n ELSE n

\* Math.max
Max(a, b) == IF a >= b THEN a ELSE b

(***************************************************************************)
(* VIEWPORT SIZER                                                          *)
(***************************************************************************)

\* The requested viewport sizes explored.
RequiredSizes == {Size(1024, 768)}

\* The window sizes the browser may start with.
InitialWindowSizes == {Size(1050, 800), Size(1074, 868), Size(1074, 800)}

\* The browser chrome (window size minus viewport size) the browser may show at a
\* measurement: it varies with maximisation and zoom.
Chromes == {Size(50, 100), Size(51, 100), Size(53, 102), Size(50, 102)}

\* The probes count up to this and stay there.
ProbeCap == 3

Bump(n) == IF n < ProbeCap THEN n + 1 ELSE n

\* const MAX_DIFF = 3
MAX_DIFF == 3

\* A bug: one retry fewer.
TwoRetries == 3 - 1

\* the retries setBrowserSize hands to _setBrowserSize
BrowserSizeRetries == 3

\* actualViewportSize.width === requiredSize.width && actualViewportSize.height === requiredSize.height
SameSize(a, b) == a.width = b.width /\ a.height = b.height

\* A bug: the two size objects compared by reference, which never holds.
ReferenceEquality(viewportSize, required) == FALSE

\* setViewportSize's first test, "the viewport size is already the required size"
AlreadyRequiredSize(viewportSize, required) == SameSize(viewportSize, required)

\* A bug: the difference subtracted instead of added.
SubtractsDifference(browser, actual, required) ==
    Size(browser.width - (required.width - actual.width),
         browser.height - (required.height - actual.height))

\* setBrowserSizeByViewportSize: the window size to request
RequiredBrowserSizeFor(browser, actual, required) ==
    Size(browser.width + (required.width - actual.width),
         browser.height + (required.height - actual.height))

\* A bug: the zoom workaround tried when one axis alone is within MAX_DIFF.
EitherAxisReasonable(wd, hd) == Abs(wd) <= MAX_DIFF \/ Abs(hd) <= MAX_DIFF

\* "We try the zoom workaround only if size difference is reasonable."
ReasonableDifference(wd, hd) == Abs(wd) <= MAX_DIFF /\ Abs(hd) <= MAX_DIFF

\* A bug: the budget tripled instead of doubled.
TripledBudget(wd, hd) ==
    Abs((IF wd = 0 THEN 1 ELSE wd) * (IF hd = 0 THEN 1 ELSE hd)) * 3

\* the attempt budget of the zoom workaround
ZoomRetries(wd, hd) ==
    Abs((IF wd = 0 THEN 1 ELSE wd) * (IF hd = 0 THEN 1 ELSE hd)) * 2

\* A bug: the coarse resize repeated for as long as the viewport does not match.
RepeatsWhileMismatched(ph) == ph \in {"coarse1", "coarse2"}

\* The coarse resize is repeated once, after the first attempt alone: "Additional
\* attempt. This Solves the "maximized browser" bug"
RepeatsCoarseResize(ph) == ph = "coarse1"

\* JS_GET_VIEWPORT_SIZE: what the browser reports for a window under a chrome
ViewportOf(window, chrome) ==
    Size(window.width - chrome.width, window.height - chrome.height)

SizerInit ==
    /\ requiredSize \in RequiredSizes
    /\ windowSize \in InitialWindowSizes
    /\ pc = "start"
    /\ phase = "coarse1"
    /\ actualViewportSize = Size(0, 0)
    /\ browserSize = Size(0, 0)
    /\ requiredBrowserSize = Size(0, 0)
    /\ retries = 0
    /\ widthDiff = 0
    /\ heightDiff = 0
    /\ widthStep = 0
    /\ heightStep = 0
    /\ currWidthChange = 0
    /\ currHeightChange = 0
    /\ retriesLeft = 0
    /\ lastRequiredBrowserSize = <<>>
    /\ outcome = "pending"
    /\ error = ""
    /\ setSizeCalls = 0
    /\ lastRequest = "none"
    /\ everHonored = FALSE
    /\ nMeasure = 0
    /\ nRequests = 0
    /\ nudges = 0
    /\ movedWindow = FALSE
    /\ moveFailed = FALSE
    /\ readWindow = FALSE

\* resolve() of the promise setViewportSize returns
Resolve ==
    /\ outcome' = "resolved"
    /\ error' = ""
    /\ pc' = "done"

\* reject(reason) of the promise setViewportSize returns
Reject(reason) ==
    /\ outcome' = "rejected"
    /\ error' = reason
    /\ pc' = "done"

\* A rejection inside the chain that starts at window().setPosition: the chain is
\* neither returned nor caught, so the promise of setViewportSize is never settled.
Hang ==
    /\ outcome' = "hung"
    /\ error' = ""
    /\ pc' = "done"

\* setBrowserSize(requiredBrowserSize): _setBrowserSize with 3 retries
StartBrowserSizeRequest(size) ==
    /\ requiredBrowserSize' = size
    /\ retries' = BrowserSizeRetries
    /\ setSizeCalls' = 0
    /\ nRequests' = Bump(nRequests)
    /\ pc' = "setSize"

\* setViewportSize: the first getViewportSize and its callback
InitialMeasure ==
    /\ pc = "start"
    /\ nMeasure' = Bump(nMeasure)
    /\ \/ \E chrome \in Chromes :
            LET viewportSize == ViewportOf(windowSize, chrome) IN
            /\ actualViewportSize' = viewportSize
            /\ IF AlreadyRequiredSize(viewportSize, requiredSize)
                 THEN Resolve
                 ELSE /\ pc' = "setPosition"
                      /\ UNCHANGED <<outcome, error>>
       \/ /\ Reject("getViewportSize failed")
          /\ UNCHANGED actualViewportSize
    /\ UNCHANGED <<requiredSize, windowSize, phase, browserSize, requiredBrowserSize,
                   retries, widthDiff, heightDiff, widthStep, heightStep,
                   currWidthChange, currHeightChange, retriesLeft,
                   lastRequiredBrowserSize, setSizeCalls, lastRequest, everHonored,
                   nRequests, nudges, movedWindow,
                   moveFailed, readWindow>>
    /\ UNCHANGED otherThanSizer

\* A bug: the rejection of window().setPosition left uncaught.
UncaughtMoveRejection(failed) == failed

\* .catch(() => logger.verbose("Warning: Failed to move the browser window to
\* (0,0)")): whether the chain goes on rejected after a move that failed or not
MoveRejection(failed) == FALSE

\* window().setPosition(0, 0); a failure is logged and the chain goes on
MoveWindow ==
    /\ pc = "setPosition"
    /\ movedWindow' = TRUE
    /\ \E failed \in BOOLEAN :
          /\ moveFailed' = failed
          /\ IF MoveRejection(failed)
               THEN Hang
               ELSE /\ pc' = "getBrowserSize"
                    /\ UNCHANGED <<outcome, error>>
    /\ UNCHANGED <<requiredSize, windowSize, phase, actualViewportSize, browserSize,
                   requiredBrowserSize, retries, widthDiff, heightDiff, widthStep,
                   heightStep, currWidthChange, currHeightChange, retriesLeft,
                   lastRequiredBrowserSize, setSizeCalls, lastRequest,
                   everHonored, nMeasure, nRequests, nudges, readWindow>>
    /\ UNCHANGED otherThanSizer

\* setBrowserSizeByViewportSize: window().getSize(), then setBrowserSize
CoarseResize ==
    /\ pc = "getBrowserSize"
    /\ readWindow' = TRUE
    /\ \/ /\ browserSize' = windowSize
          /\ StartBrowserSizeRequest(
                 RequiredBrowserSizeFor(windowSize, actualViewportSize, requiredSize))
          /\ UNCHANGED <<outcome, error>>
       \/ /\ Hang
          /\ UNCHANGED <<browserSize, requiredBrowserSize, retries, setSizeCalls,
                         nRequests>>
    /\ UNCHANGED <<requiredSize, windowSize, phase, actualViewportSize, widthDiff,
                   heightDiff, widthStep, heightStep, currWidthChange,
                   currHeightChange, retriesLeft, lastRequiredBrowserSize,
                   lastRequest, everHonored, nMeasure, nudges, movedWindow,
                   moveFailed>>
    /\ UNCHANGED otherThanSizer

\* _setBrowserSize: window().setSize(width, height); the browser honors it or not
SetSize ==
    /\ pc = "setSize"
    /\ setSizeCalls' = setSizeCalls + 1
    /\ \/ /\ windowSize' \in {requiredBrowserSize, windowSize}
          /\ pc' = "getSize"
          /\ UNCHANGED <<outcome, error>>
       \/ /\ Hang
          /\ UNCHANGED windowSize
    /\ UNCHANGED <<requiredSize, phase, actualViewportSize, browserSize,
                   requiredBrowserSize, retries, widthDiff, heightDiff, widthStep,
                   heightStep, currWidthChange, currHeightChange, retriesLeft,
                   lastRequiredBrowserSize, lastRequest, everHonored, nMeasure,
                   nRequests, nudges, movedWindow,
                   moveFailed, readWindow>>
    /\ UNCHANGED otherThanSizer

\* _setBrowserSize: the sleep, window().getSize() and the callback that compares
CheckSize ==
    /\ pc = "getSize"
    /\ \/ /\ IF SameSize(windowSize, requiredBrowserSize)
               THEN \* resolve(): setBrowserSize gives true
                    /\ lastRequest' = "honored"
                    /\ everHonored' = TRUE
                    /\ pc' = "measure"
                    /\ UNCHANGED retries
               ELSE IF retries = 0
               THEN \* reject("Failed to set browser size: retries is out."):
                    \* setBrowserSize gives false
                    /\ lastRequest' = "abandoned"
                    /\ pc' = "measure"
                    /\ UNCHANGED <<retries, everHonored>>
               ELSE /\ retries' = retries - 1
                    /\ pc' = "setSize"
                    /\ UNCHANGED <<lastRequest, everHonored>>
          /\ UNCHANGED <<outcome, error>>
       \/ /\ Hang
          /\ UNCHANGED <<retries, lastRequest, everHonored>>
    /\ UNCHANGED <<requiredSize, windowSize, phase, actualViewportSize, browserSize,
                   requiredBrowserSize, widthDiff, heightDiff, widthStep, heightStep,
                   currWidthChange, currHeightChange, retriesLeft,
                   lastRequiredBrowserSize, setSizeCalls, nMeasure, nRequests,
                   nudges, movedWindow,
                   moveFailed, readWindow>>
    /\ UNCHANGED otherThanSizer

\* getViewportSize after a resize request, and the callback of its phase
Remeasure ==
    /\ pc = "measure"
    /\ nMeasure' = Bump(nMeasure)
    /\ lastRequiredBrowserSize' =
          IF phase = "zoom" THEN <<requiredBrowserSize>> ELSE lastRequiredBrowserSize
    /\ \/ \E chrome \in Chromes :
            LET viewportSize == ViewportOf(windowSize, chrome) IN
            /\ actualViewportSize' = viewportSize
            /\ IF SameSize(viewportSize, requiredSize)
                 THEN /\ Resolve
                      /\ UNCHANGED <<phase, retriesLeft>>
                 ELSE IF RepeatsCoarseResize(phase)
                 THEN \* "Trying workaround for maximization..."
                      /\ phase' = "coarse2"
                      /\ pc' = "getBrowserSize"
                      /\ UNCHANGED <<outcome, error, retriesLeft>>
                 ELSE IF phase = "coarse2"
                 THEN /\ pc' = "zoomGetSize"
                      /\ UNCHANGED <<phase, outcome, error, retriesLeft>>
                 ELSE IF Abs(currWidthChange) <= Abs(widthDiff)
                         \/ Abs(currHeightChange) <= Abs(heightDiff)
                 THEN /\ retriesLeft' = retriesLeft - 1
                      /\ IF retriesLeft - 1 > 0
                           THEN /\ pc' = "setWindowSize"
                                /\ UNCHANGED <<outcome, error>>
                           ELSE Reject("Failed to set viewport size: zoom workaround failed.")
                      /\ UNCHANGED phase
                 ELSE /\ Reject("Failed to set viewport size: zoom workaround failed.")
                      /\ UNCHANGED <<phase, retriesLeft>>
       \/ /\ Hang
          /\ UNCHANGED <<actualViewportSize, phase, retriesLeft>>
    /\ UNCHANGED <<requiredSize, windowSize, browserSize, requiredBrowserSize, retries,
                   widthDiff, heightDiff, widthStep, heightStep, currWidthChange,
                   currHeightChange, setSizeCalls, lastRequest, everHonored,
                   nRequests, nudges, movedWindow,
                   moveFailed, readWindow>>
    /\ UNCHANGED otherThanSizer

\* setViewportSize: window().getSize() before the zoom workaround, and its callback
ZoomDecision ==
    /\ pc = "zoomGetSize"
    /\ \/ LET wd == actualViewportSize.width - requiredSize.width
              hd == actualViewportSize.height - requiredSize.height
          IN
          /\ browserSize' = windowSize
          /\ widthDiff' = wd
          /\ widthStep' = IF wd > 0 THEN -1 ELSE 1
          /\ heightDiff' = hd
          /\ heightStep' = IF hd > 0 THEN -1 ELSE 1
          /\ currWidthChange' = 0
          /\ currHeightChange' = 0
          /\ IF ReasonableDifference(wd, hd)
               THEN \* "Trying workaround for zoom..."
                    /\ retriesLeft' = ZoomRetries(wd, hd)
                    /\ lastRequiredBrowserSize' = <<>>
                    /\ phase' = "zoom"
                    /\ pc' = "setWindowSize"
                    /\ UNCHANGED <<outcome, error>>
               ELSE /\ Reject("Failed to set viewport size!")
                    /\ UNCHANGED <<retriesLeft, lastRequiredBrowserSize, phase>>
       \/ /\ Hang
          /\ UNCHANGED <<browserSize, widthDiff, widthStep, heightDiff, heightStep,
                         currWidthChange, currHeightChange, retriesLeft,
                         lastRequiredBrowserSize, phase>>
    /\ UNCHANGED <<requiredSize, windowSize, actualViewportSize, requiredBrowserSize,
                   retries, setSizeCalls, lastRequest, everHonored, nMeasure,
                   nRequests, nudges, movedWindow,
                   moveFailed, readWindow>>
    /\ UNCHANGED otherThanSizer

\* A bug: the change grows for as long as the axis does not match.
UnboundedChange(currChange, diff, step, actual, required) ==
    IF actual /= required THEN currChange + step ELSE currChange

\* if (Math.abs(currWidthChange) <= Math.abs(widthDiff) &&
\*     actualViewportSize.width !== requiredSize.width) currWidthChange += widthStep
NextChange(currChange, diff, step, actual, required) ==
    IF Abs(currChange) <= Abs(diff) /\ actual /= required
      THEN currChange + step
      ELSE currChange

\* _setWindowSize: the next candidate window size, the stall test, setBrowserSize
SetWindowSize ==
    /\ pc = "setWindowSize"
    /\ LET cw == NextChange(currWidthChange, widthDiff, widthStep,
                            actualViewportSize.width, requiredSize.width)
           ch == NextChange(currHeightChange, heightDiff, heightStep,
                            actualViewportSize.height, requiredSize.height)
           candidate == Size(browserSize.width + cw, browserSize.height + ch)
       IN
       /\ currWidthChange' = cw
       /\ currHeightChange' = ch
       /\ IF lastRequiredBrowserSize /= <<>>
             /\ SameSize(candidate, lastRequiredBrowserSize[1])
            THEN \* "Stopping viewport size attempts."
                 /\ Resolve
                 /\ UNCHANGED <<requiredBrowserSize, retries, setSizeCalls, nRequests,
                                nudges>>
            ELSE /\ StartBrowserSizeRequest(candidate)
                 /\ nudges' = nudges + 1
                 /\ UNCHANGED <<outcome, error>>
    /\ UNCHANGED <<requiredSize, windowSize, phase, actualViewportSize, browserSize,
                   widthDiff, heightDiff, widthStep, heightStep, retriesLeft,
                   lastRequiredBrowserSize, lastRequest, everHonored, nMeasure,
                   movedWindow,
                   moveFailed, readWindow>>
    /\ UNCHANGED otherThanSizer

SizerNext ==
    \/ InitialMeasure
    \/ MoveWindow
    \/ CoarseResize
    \/ SetSize
    \/ CheckSize
    \/ Remeasure
    \/ ZoomDecision
    \/ SetWindowSize

(***************************************************************************)
(* REGION TILER                                                            *)
(***************************************************************************)

\* The largest width and height of a container region explored.
MaxDim == 3

\* The left and top offsets of the container regions explored.
RegionOffsets == {-1, 0, 2}

\* new Region(left, top, width, height)
Region(l, t, w, h) == [left |-> l, top |-> t, width |-> w, height |-> h]

\* A bug: the last column and row are not clipped.
NoClip(current, edge) == current

\* if (currentRight > right) { currentRight = right; }
ClipToEdge(current, edge) == IF current > edge THEN edge ELSE current

\* A bug: the tile size is not normalized to the container.
NoNormalize(subRegionDim, containerDim) == subRegionDim

\* if (subRegionWidth > containerRegion.getWidth()) subRegionWidth = containerRegion.getWidth()
Normalize(subRegionDim, containerDim) ==
    IF subRegionDim > containerDim THEN containerDim ELSE subRegionDim

\* A bug: the last tile of a row or column is not shifted back.
NoShiftBack(current, dim, edge) == current

\* if (currentLeft + subRegionWidth > right) currentLeft = (right - subRegionWidth) + 1
ShiftBack(current, dim, edge) ==
    IF current + dim > edge THEN (edge - dim) + 1 ELSE current

\* _getSubRegionsWithVaryingSize: the inner loop over one row
RECURSIVE VaryingRow(_, _, _, _, _)
VaryingRow(currentLeft, right, currentTop, currentBottom, maxWidth) ==
    IF currentLeft < right
      THEN LET currentRight == ClipToEdge(currentLeft + maxWidth, right) IN
           <<Region(currentLeft, currentTop, currentRight - currentLeft,
                    currentBottom - currentTop)>>
           \o VaryingRow(currentLeft + maxWidth, right, currentTop, currentBottom,
                         maxWidth)
      ELSE <<>>

\* _getSubRegionsWithVaryingSize: the outer loop over the rows
RECURSIVE VaryingRows(_, _, _, _)
VaryingRows(currentTop, bottom, container, maxSize) ==
    IF currentTop < bottom
      THEN LET currentBottom == ClipToEdge(currentTop + maxSize.height, bottom) IN
           VaryingRow(container.left, container.left + container.width, currentTop,
                      currentBottom, maxSize.width)
           \o VaryingRows(currentTop + maxSize.height, bottom, container, maxSize)
      ELSE <<>>

\* _getSubRegionsWithFixedSize: the inner loop over one row
RECURSIVE FixedRow(_, _, _, _, _)
FixedRow(currentLeft, right, currentTop, w, h) ==
    IF currentLeft <= right
      THEN LET left == ShiftBack(currentLeft, w, right) IN
           <<Region(left, currentTop, w, h)>>
           \o FixedRow(left + w, right, currentTop, w, h)
      ELSE <<>>

\* _getSubRegionsWithFixedSize: the outer loop over the rows
RECURSIVE FixedRows(_, _, _, _, _)
FixedRows(currentTop, bottom, container, w, h) ==
    IF currentTop <= bottom
      THEN LET top == ShiftBack(currentTop, h, bottom) IN
           FixedRow(container.left, container.left + container.width - 1, top, w, h)
           \o FixedRows(top + h, bottom, container, w, h)
      ELSE <<>>

\* A bug: only the width is guarded.
GuardsWidthOnly(size) == size.width <= 0

\* ArgumentGuard.greaterThanZero on the width and the height of the tile size
GuardThrows(size) == size.width <= 0 \/ size.height <= 0

\* _getSubRegionsWithVaryingSize, once its guards passed
GetSubRegionsWithVaryingSize(container, maxSize) ==
    VaryingRows(container.top, container.top + container.height, container, maxSize)

\* _getSubRegionsWithFixedSize, once its guards passed
GetSubRegionsWithFixedSize(container, size) ==
    LET w == Normalize(size.width, container.width)
        h == Normalize(size.height, container.height)
    IN IF w = container.width /\ h = container.height
         THEN <<container>>
         ELSE FixedRows(container.top, container.top + container.height - 1,
                        container, w, h)

TilerInit ==
    /\ containerRegion \in {Region(l, t, w, h) : l \in RegionOffsets, t \in RegionOffsets,
                                                 w \in 0..MaxDim, h \in 0..MaxDim}
    /\ subRegionSize \in {Size(w, h) : w \in (-1)..(MaxDim + 1), h \in (-1)..(MaxDim + 1)}
    /\ isFixedSize \in BOOLEAN
    /\ tilerPc = "call"
    /\ subRegions = <<>>
    /\ tilerThrew = FALSE

\* Region.getSubRegions(subRegionSize, isFixedSize)
GetSubRegions ==
    /\ tilerPc = "call"
    /\ tilerPc' = "returned"
    /\ IF GuardThrows(subRegionSize)
         THEN /\ tilerThrew' = TRUE
              /\ UNCHANGED subRegions
         ELSE /\ subRegions' = IF isFixedSize
                                 THEN GetSubRegionsWithFixedSize(containerRegion,
                                                                 subRegionSize)
                                 ELSE GetSubRegionsWithVaryingSize(containerRegion,
                                                                   subRegionSize)
              /\ UNCHANGED tilerThrew
    /\ UNCHANGED <<containerRegion, subRegionSize, isFixedSize>>
    /\ UNCHANGED otherThanTiler

TilerNext == GetSubRegions

(***************************************************************************)
(* REGION OPERATIONS                                                       *)
(***************************************************************************)

\* The number of operations applied to one region.
MaxRegionOps == 2

\* The widths and heights a region is constructed with, and the arguments of the
\* operations explored.
ConstructorDims == (-1)..2
OffsetAmounts == {-1, 2}
ScaleFactors == {0, 2}
TileSizes == {Size(0, 1), Size(1, 2), Size(2, 2)}

\* static get EMPTY(): new Region(0, 0, 0, 0)
EMPTY == Region(0, 0, 0, 0)

\* The regions a region is intersected with.
OtherRegions ==
    {Region(0, 0, 2, 2), Region(1, -1, 0, 3), Region(2, 2, 1, 1), Region(5, 5, 1, 1), EMPTY}

\* A bug: a region of any size is constructed.
NoSizeGuard(width, height) == FALSE

\* ArgumentGuard.greaterThanOrEqualToZero on the width and the height
ConstructorThrows(width, height) == width < 0 \/ height < 0

\* Location.offset(dx, dy) and Region.fromLocationAndSize
OffsetRegion(r, dx, dy) == Region(r.left + dx, r.top + dy, r.width, r.height)

\* Location.scale(scaleRatio), RectangleSize.scale(scaleRatio) and
\* Region.fromLocationAndSize
ScaledRegion(r, ratio) ==
    Region(r.left * ratio, r.top * ratio, r.width * ratio, r.height * ratio)

\* Region.isIntersected(other)
IsIntersected(r, other) ==
    LET right == r.left + r.width
        bottom == r.top + r.height
        otherLeft == other.left
        otherTop == other.top
        otherRight == otherLeft + other.width
        otherBottom == otherTop + other.height
    IN /\ \/ r.left <= otherLeft /\ otherLeft <= right
          \/ otherLeft <= r.left /\ r.left <= otherRight
       /\ \/ r.top <= otherTop /\ otherTop <= bottom
          \/ otherTop <= r.top /\ r.top <= otherBottom

\* Region.intersect(other): the receiver after the call
Intersected(r, other) ==
    IF ~IsIntersected(r, other)
      THEN EMPTY
      ELSE LET otherLeft == other.left
               otherTop == other.top
               intersectionLeft == IF r.left >= otherLeft THEN r.left ELSE otherLeft
               intersectionTop == IF r.top >= otherTop THEN r.top ELSE otherTop
               right == r.left + r.width
               otherRight == otherLeft + other.width
               intersectionRight == IF right <= otherRight THEN right ELSE otherRight
               bottom == r.top + r.height
               otherBottom == otherTop + other.height
               intersectionBottom == IF bottom <= otherBottom THEN bottom
                                                               ELSE otherBottom
           IN Region(intersectionLeft, intersectionTop,
                     intersectionRight - intersectionLeft,
                     intersectionBottom - intersectionTop)

RegionOp(name, other) == [name |-> name, other |-> other]

RegionInit ==
    /\ thisRegion = <<>>
    /\ regionParts = <<>>
    /\ regionThrew = FALSE
    /\ regionOps = 0
    /\ lastRegionOp = RegionOp("none", EMPTY)

\* a region made by the constructor, or the exception of its guards
Constructed(r) ==
    IF ConstructorThrows(r.width, r.height)
      THEN /\ regionThrew' = TRUE
           /\ UNCHANGED thisRegion
      ELSE /\ thisRegion' = <<r>>
           /\ UNCHANGED regionThrew

\* new Region(left, top, width, height)
NewRegion ==
    /\ thisRegion = <<>> /\ ~regionThrew
    /\ \E l \in RegionOffsets, t \in RegionOffsets,
          w \in ConstructorDims, h \in ConstructorDims :
         Constructed(Region(l, t, w, h))
    /\ lastRegionOp' = RegionOp("new", EMPTY)
    /\ UNCHANGED <<regionParts, regionOps>>
    /\ UNCHANGED otherThanRegion

\* region.offset(dx, dy)
Offset ==
    /\ thisRegion /= <<>> /\ ~regionThrew /\ regionOps < MaxRegionOps
    /\ \E dx \in OffsetAmounts, dy \in OffsetAmounts :
         Constructed(OffsetRegion(thisRegion[1], dx, dy))
    /\ lastRegionOp' = RegionOp("offset", EMPTY)
    /\ regionOps' = regionOps + 1
    /\ UNCHANGED regionParts
    /\ UNCHANGED otherThanRegion

\* region.scale(scaleRatio)
Scale ==
    /\ thisRegion /= <<>> /\ ~regionThrew /\ regionOps < MaxRegionOps
    /\ \E ratio \in ScaleFactors : Constructed(ScaledRegion(thisRegion[1], ratio))
    /\ lastRegionOp' = RegionOp("scale", EMPTY)
    /\ regionOps' = regionOps + 1
    /\ UNCHANGED regionParts
    /\ UNCHANGED otherThanRegion

\* region.intersect(other): the fields of the receiver are assigned
Intersect ==
    /\ thisRegion /= <<>> /\ ~regionThrew /\ regionOps < MaxRegionOps
    /\ \E other \in OtherRegions :
         /\ thisRegion' = <<Intersected(thisRegion[1], other)>>
         /\ lastRegionOp' = RegionOp("intersect", other)
    /\ regionOps' = regionOps + 1
    /\ UNCHANGED <<regionParts, regionThrew>>
    /\ UNCHANGED otherThanRegion

\* region.getSubRegions(subRegionSize, isFixedSize)
SubRegionsOfRegion ==
    /\ thisRegion /= <<>> /\ ~regionThrew /\ regionOps < MaxRegionOps
    /\ \E size \in TileSizes, fixed \in BOOLEAN :
         IF GuardThrows(size)
           THEN /\ regionThrew' = TRUE
                /\ UNCHANGED regionParts
           ELSE /\ regionParts' = IF fixed
                                    THEN GetSubRegionsWithFixedSize(thisRegion[1], size)
                                    ELSE GetSubRegionsWithVaryingSize(thisRegion[1], size)
                /\ UNCHANGED regionThrew
    /\ lastRegionOp' = RegionOp("getSubRegions", EMPTY)
    /\ regionOps' = regionOps + 1
    /\ UNCHANGED thisRegion
    /\ UNCHANGED otherThanRegion

RegionNext ==
    \/ NewRegion
    \/ Offset
    \/ Scale
    \/ Intersect
    \/ SubRegionsOfRegion

(***************************************************************************)
(* CAPTURE PIPELINE (getScreenshot)                                        *)
(***************************************************************************)

\* const MIN_SCREENSHOT_PART_HEIGHT = 10, MAX_SCROLLBAR_SIZE = 50
MIN_SCREENSHOT_PART_HEIGHT == 10
MAX_SCROLLBAR_SIZE == 50

Point(x, y) == [x |-> x, y |-> y]

\* The viewportSize argument explored.
ViewportSize == Size(100, 110)

\* The logical page sizes, device pixel ratios, inline overflow styles and scroll
\* positions the browser may start with, and the regions a region provider gives.
PageSizes == {Size(100, 110), Size(100, 150), Size(160, 110)}
PixelRatios == {2}
OverflowValues == {"", "scroll"}
BodyOverflowValues == {"", "hidden"}
InitialScrollPositions == {Point(0, 0), Point(0, 40)}
ProvidedRegions == {Region(0, 5, 100, 105)}

\* a screenshot: its size, and whether it was stitched from parts
Image(size, stitched) ==
    [width |-> size.width, height |-> size.height, stitched |-> stitched]

RegionSize(r) == Size(r.width, r.height)

\* hideScrollbars = hideScrollbars === null ? useCssTransition : hideScrollbars
EffectiveHideScrollbars(argument, cssTransition) ==
    IF argument = "null" THEN cssTransition ELSE argument = "true"

\* "if (originalBodyOverflow)": neither undefined nor the empty string
Truthy(value) == value /= <<>> /\ value[1] /= ""

\* JS_GET_IS_BODY_OVERFLOW_HIDDEN: the computed overflow of the body
BodyComputedHidden ==
    bodyOverflow = "hidden" \/ (bodyOverflow = "" /\ bodyStyledHidden)

\* The farthest offset a page of this size scrolls to.
ScrollLimit(page) ==
    Point(Max(page.width - ViewportSize.width, 0), Max(page.height - ViewportSize.height, 0))

ClampScroll(p, page) ==
    Point(IF p.x > ScrollLimit(page).x THEN ScrollLimit(page).x ELSE p.x,
          IF p.y > ScrollLimit(page).y THEN ScrollLimit(page).y ELSE p.y)

\* positionProvider.setPosition(p): the offset reached is p, p clamped to the page,
\* or the offset it was at
Achieved(p) == {p, ClampScroll(p, pageSize), scrollPosition}

\* A bug: the region is the crop of every capture, whatever is checked.
CropsWheneverRegionGiven ==
    IF regionInScreenshot /= <<>>
      THEN RegionSize(regionInScreenshot[1])
      ELSE ViewportSize

\* _captureViewport: the size of the image it gives, cropped to the region of a
\* frame or element check
CapturedSize ==
    IF checkFrameOrElement /\ regionInScreenshot /= <<>>
      THEN RegionSize(regionInScreenshot[1])
      ELSE ViewportSize

\* A bug: ">" where the code has ">=".
SkipsWhenStrictlyLarger ==
    \/ ~fullPage /\ ~checkFrameOrElement
    \/ imageObject.width > entirePageSize.width
       /\ imageObject.height > entirePageSize.height

\* the two early resolve() of the tiling promise
SkipsTiling ==
    \/ ~fullPage /\ ~checkFrameOrElement
    \/ imageObject.width >= entirePageSize.width
       /\ imageObject.height >= entirePageSize.height

\* A bug: the whole height of the origin image used as the tile height.
NoScrollbarMargin == Size(imageObject.width, imageObject.height)

\* screenshotPartSize
ScreenshotPartSize ==
    Size(imageObject.width,
         Max(imageObject.height - MAX_SCROLLBAR_SIZE, MIN_SCREENSHOT_PART_HEIGHT))

\* GeometryUtils.getSubRegions(page region, screenshotPartSize, false)
ScreenshotParts ==
    GetSubRegionsWithVaryingSize(
        Region(0, 0, entirePageSize.width, entirePageSize.height), ScreenshotPartSize)

\* A bug: no default when getEntireSize fails.
NoDefaultEntireSize == Size(0, 0)

\* "Couldn't get entire page size, using viewport size as default."
DefaultEntireSize == ViewportSize

\* A bug: the part is recorded at the offset that was requested.
RequestedPosition(partPosition, reached) == partPosition

\* position: {x: currentPosition.x, y: currentPosition.y} of a part
RecordedPosition(partPosition, reached) == reached

\* A bug: the 0,0 part is scrolled to and captured like any other.
NoPartIsOrigin(part) == FALSE

\* "Skip 0,0 as we already got the screenshot"
IsOriginPart(part) == part.left = 0 /\ part.top = 0

\* const partPosition = {x: part.left, y: part.top}
PartPosition(part) == Point(part.left, part.top)

\* A bug: the callbacks of all parts are started by the forEach itself.
Unchained(k) == TRUE

\* "return promise.then(...)" of _processPart: the callback of part k runs when the
\* promise of the part before it is resolved
ChainedAfter(k) == IF k = 1 THEN TRUE ELSE partPc[k - 1] = "done"

\* A bug: the scroll state is restored before the overflow of the body.
StateBeforeBody(step) ==
    CASE step = "tiling" -> "restoreOverflow"
      [] step = "restoreOverflow" -> "restoreState"
      [] step = "restoreState" -> "restoreBodyOverflow"
      [] step = "restoreBodyOverflow" -> "finalCrop"

\* The order of the callbacks chained after the tiling promise.
RestorationAfter(step) ==
    CASE step = "tiling" -> "restoreOverflow"
      [] step = "restoreOverflow" -> "restoreBodyOverflow"
      [] step = "restoreBodyOverflow" -> "restoreState"
      [] step = "restoreState" -> "finalCrop"

\* the promise getScreenshot returns is resolved
ShotResolved ==
    /\ shotOutcome' = "resolved"
    /\ shotError' = shotError
    /\ shotPc' = "done"

\* a rejection in the main chain: every later callback is skipped
ShotRejected ==
    /\ shotOutcome' = "rejected"
    /\ shotError' = "rejected by a collaborator"
    /\ shotPc' = "done"

\* throw new Error("Could not scroll to the x/y corner of the screen")
CouldNotScroll ==
    /\ shotOutcome' = "rejected"
    /\ shotError' = "Could not scroll to the x/y corner of the screen"
    /\ shotPc' = "done"

\* a rejection inside the tiling promise: its resolve is never called
ShotHung ==
    /\ shotOutcome' = "hung"
    /\ shotError' = shotError
    /\ shotPc' = "done"

\* probe: the driver and position provider calls of the parts that are in flight
PartCallsInFlight ==
    Cardinality({k \in 1..Len(partPc) :
                    partPc[k] \in {"setPosition", "getCurrentPosition", "capture"}})

ShotInit ==
    /\ fullPage \in BOOLEAN
    /\ useCssTransition \in BOOLEAN
    /\ \E argument \in {"null", "true", "false"} :
          hideScrollbars = EffectiveHideScrollbars(argument, useCssTransition)
    /\ checkFrameOrElement \in BOOLEAN
    /\ hasRegionProvider \in BOOLEAN
    /\ pageSize \in PageSizes
    /\ bodyStyledHidden \in BOOLEAN
    /\ docOverflow \in OverflowValues
    /\ bodyOverflow \in BodyOverflowValues
    /\ scrollPosition \in {p \in InitialScrollPositions : ClampScroll(p, pageSize) = p}
    /\ preDocOverflow = docOverflow
    /\ preBodyOverflow = bodyOverflow
    /\ preScrollPosition = scrollPosition
    /\ originalPosition = <<>>
    /\ originalOverflow = <<>>
    /\ originalBodyOverflow = <<>>
    /\ entirePageSize = Size(0, 0)
    /\ pixelRatio = 0
    /\ regionInScreenshot = <<>>
    /\ imageObject = Size(0, 0)
    /\ screenshot = Image(Size(0, 0), FALSE)
    /\ screenshotParts = <<>>
    /\ parts = <<>>
    /\ partPc = <<>>
    /\ currentPosition = <<>>
    /\ shotPc = "getEntireSize"
    /\ shotOutcome = "pending"
    /\ shotError = ""
    /\ tilingRan = FALSE
    /\ restorations = <<>>
    /\ defaulted = {}

\* step #1: positionProvider.getEntireSize(), the viewport size if it fails
GetEntireSize ==
    /\ shotPc = "getEntireSize"
    /\ \/ /\ entirePageSize' = pageSize
          /\ UNCHANGED defaulted
       \/ /\ entirePageSize' = DefaultEntireSize
          /\ defaulted' = defaulted \cup {"entirePageSize"}
    /\ shotPc' = "getDevicePixelRatio"
    /\ UNCHANGED <<fullPage, hideScrollbars, useCssTransition, checkFrameOrElement,
                   hasRegionProvider, pageSize, bodyStyledHidden, docOverflow,
                   bodyOverflow, scrollPosition, preDocOverflow, preBodyOverflow,
                   preScrollPosition, originalPosition, originalOverflow,
                   originalBodyOverflow, pixelRatio, regionInScreenshot, imageObject,
                   screenshot, screenshotParts, partPc, parts, currentPosition,
                   shotOutcome, shotError, tilingRan, restorations>>
    /\ UNCHANGED otherThanShot

\* step #2: getDevicePixelRatio, 1 if it fails
GetDevicePixelRatio ==
    /\ shotPc = "getDevicePixelRatio"
    /\ \/ /\ pixelRatio' \in PixelRatios
          /\ UNCHANGED defaulted
       \/ /\ pixelRatio' = 1
          /\ defaulted' = defaulted \cup {"pixelRatio"}
    /\ shotPc' = "hideScrollbars"
    /\ UNCHANGED <<fullPage, hideScrollbars, useCssTransition, checkFrameOrElement,
                   hasRegionProvider, pageSize, bodyStyledHidden, docOverflow,
                   bodyOverflow, scrollPosition, preDocOverflow, preBodyOverflow,
                   preScrollPosition, originalPosition, originalOverflow,
                   originalBodyOverflow, entirePageSize, regionInScreenshot,
                   imageObject, screenshot, screenshotParts, partPc, parts,
                   currentPosition, shotOutcome, shotError, tilingRan, restorations>>
    /\ UNCHANGED otherThanShot

\* step #3: setOverflow(browser, "hidden") if instructed
HideScrollbars ==
    /\ shotPc = "hideScrollbars"
    /\ IF hideScrollbars
         THEN \/ /\ originalOverflow' = <<docOverflow>>
                 /\ docOverflow' = "hidden"
                 /\ shotPc' = IF useCssTransition THEN "isBodyOverflowHidden"
                                                  ELSE "getState"
                 /\ UNCHANGED <<shotOutcome, shotError>>
              \/ /\ ShotRejected
                 /\ UNCHANGED <<originalOverflow, docOverflow>>
         ELSE /\ shotPc' = "getState"
              /\ UNCHANGED <<originalOverflow, docOverflow, shotOutcome, shotError>>
    /\ UNCHANGED <<fullPage, hideScrollbars, useCssTransition, checkFrameOrElement,
                   hasRegionProvider, pageSize, bodyStyledHidden, bodyOverflow,
                   scrollPosition, preDocOverflow, preBodyOverflow,
                   preScrollPosition, originalPosition, originalBodyOverflow,
                   entirePageSize, pixelRatio, regionInScreenshot, imageObject,
                   screenshot, screenshotParts, partPc, parts, currentPosition,
                   tilingRan, restorations, defaulted>>
    /\ UNCHANGED otherThanShot

\* step #3: JS_GET_IS_BODY_OVERFLOW_HIDDEN
IsBodyOverflowHidden ==
    /\ shotPc = "isBodyOverflowHidden"
    /\ \/ /\ shotPc' = IF BodyComputedHidden THEN "setBodyOverflow" ELSE "getState"
          /\ UNCHANGED <<shotOutcome, shotError>>
       \/ ShotRejected
    /\ UNCHANGED <<fullPage, hideScrollbars, useCssTransition, checkFrameOrElement,
                   hasRegionProvider, pageSize, bodyStyledHidden, docOverflow,
                   bodyOverflow, scrollPosition, preDocOverflow, preBodyOverflow,
                   preScrollPosition, originalPosition, originalOverflow,
                   originalBodyOverflow, entirePageSize, pixelRatio,
                   regionInScreenshot, imageObject, screenshot, screenshotParts,
                   partPc, parts, currentPosition, tilingRan, restorations,
                   defaulted>>
    /\ UNCHANGED otherThanShot

\* step #3: setBodyOverflow(browser, "initial")
SetBodyOverflowInitial ==
    /\ shotPc = "setBodyOverflow"
    /\ \/ /\ originalBodyOverflow' = <<bodyOverflow>>
          /\ bodyOverflow' = "initial"
          /\ shotPc' = "getState"
          /\ UNCHANGED <<shotOutcome, shotError>>
       \/ /\ ShotRejected
          /\ UNCHANGED <<originalBodyOverflow, bodyOverflow>>
    /\ UNCHANGED <<fullPage, hideScrollbars, useCssTransition, checkFrameOrElement,
                   hasRegionProvider, pageSize, bodyStyledHidden, docOverflow,
                   scrollPosition, preDocOverflow, preBodyOverflow,
                   preScrollPosition, originalPosition, originalOverflow,
                   entirePageSize, pixelRatio, regionInScreenshot, imageObject,
                   screenshot, screenshotParts, partPc, parts, currentPosition,
                   tilingRan, restorations, defaulted>>
    /\ UNCHANGED otherThanShot

\* step #4: positionProvider.getState() of a full page screenshot
GetState ==
    /\ shotPc = "getState"
    /\ IF fullPage
         THEN \/ /\ originalPosition' = <<scrollPosition>>
                 /\ shotPc' = "setOrigin"
                 /\ UNCHANGED <<shotOutcome, shotError>>
              \/ /\ ShotRejected
                 /\ UNCHANGED originalPosition
         ELSE /\ shotPc' = "resolveRegion"
              /\ UNCHANGED <<originalPosition, shotOutcome, shotError>>
    /\ UNCHANGED <<fullPage, hideScrollbars, useCssTransition, checkFrameOrElement,
                   hasRegionProvider, pageSize, bodyStyledHidden, docOverflow,
                   bodyOverflow, scrollPosition, preDocOverflow, preBodyOverflow,
                   preScrollPosition, originalOverflow, originalBodyOverflow,
                   entirePageSize, pixelRatio, regionInScreenshot, imageObject,
                   screenshot, screenshotParts, partPc, parts, currentPosition,
                   tilingRan, restorations, defaulted>>
    /\ UNCHANGED otherThanShot

\* step #4: positionProvider.setPosition({x: 0, y: 0})
ScrollToOrigin ==
    /\ shotPc = "setOrigin"
    /\ \/ /\ scrollPosition' \in Achieved(Point(0, 0))
          /\ shotPc' = "checkOrigin"
          /\ UNCHANGED <<shotOutcome, shotError>>
       \/ /\ ShotRejected
          /\ UNCHANGED scrollPosition
    /\ UNCHANGED <<fullPage, hideScrollbars, useCssTransition, checkFrameOrElement,
                   hasRegionProvider, pageSize, bodyStyledHidden, docOverflow,
                   bodyOverflow, preDocOverflow, preBodyOverflow, preScrollPosition,
                   originalPosition, originalOverflow, originalBodyOverflow,
                   entirePageSize, pixelRatio, regionInScreenshot, imageObject,
                   screenshot, screenshotParts, partPc, parts, currentPosition,
                   tilingRan, restorations, defaulted>>
    /\ UNCHANGED otherThanShot

\* step #4: getCurrentPosition(), and the throw if it is not (0, 0)
CheckOrigin ==
    /\ shotPc = "checkOrigin"
    /\ \/ IF scrollPosition.x /= 0 \/ scrollPosition.y /= 0
            THEN CouldNotScroll
            ELSE /\ shotPc' = "resolveRegion"
                 /\ UNCHANGED <<shotOutcome, shotError>>
       \/ ShotRejected
    /\ UNCHANGED <<fullPage, hideScrollbars, useCssTransition, checkFrameOrElement,
                   hasRegionProvider, pageSize, bodyStyledHidden, docOverflow,
                   bodyOverflow, scrollPosition, preDocOverflow, preBodyOverflow,
                   preScrollPosition, originalPosition, originalOverflow,
                   originalBodyOverflow, entirePageSize, pixelRatio,
                   regionInScreenshot, imageObject, screenshot, screenshotParts,
                   partPc, parts, currentPosition, tilingRan, restorations,
                   defaulted>>
    /\ UNCHANGED otherThanShot

\* _captureViewport and regionProvider.getRegionInLocation, if a provider is given
ResolveRegion ==
    /\ shotPc = "resolveRegion"
    /\ IF hasRegionProvider
         THEN \/ /\ regionInScreenshot' \in {<<r>> : r \in ProvidedRegions}
                 /\ shotPc' = "captureOrigin"
                 /\ UNCHANGED <<shotOutcome, shotError>>
              \/ /\ ShotRejected
                 /\ UNCHANGED regionInScreenshot
         ELSE /\ shotPc' = "captureOrigin"
              /\ UNCHANGED <<regionInScreenshot, shotOutcome, shotError>>
    /\ UNCHANGED <<fullPage, hideScrollbars, useCssTransition, checkFrameOrElement,
                   hasRegionProvider, pageSize, bodyStyledHidden, docOverflow,
                   bodyOverflow, scrollPosition, preDocOverflow, preBodyOverflow,
                   preScrollPosition, originalPosition, originalOverflow,
                   originalBodyOverflow, entirePageSize, pixelRatio, imageObject,
                   screenshot, screenshotParts, partPc, parts, currentPosition,
                   tilingRan, restorations, defaulted>>
    /\ UNCHANGED otherThanShot

\* step #5: _captureViewport of the 0,0 tile, and asObject
CaptureOrigin ==
    /\ shotPc = "captureOrigin"
    /\ \/ /\ imageObject' = CapturedSize
          /\ screenshot' = Image(CapturedSize, FALSE)
          /\ shotPc' = "tilingDecision"
          /\ UNCHANGED <<shotOutcome, shotError>>
       \/ /\ ShotRejected
          /\ UNCHANGED <<imageObject, screenshot>>
    /\ UNCHANGED <<fullPage, hideScrollbars, useCssTransition, checkFrameOrElement,
                   hasRegionProvider, pageSize, bodyStyledHidden, docOverflow,
                   bodyOverflow, scrollPosition, preDocOverflow, preBodyOverflow,
                   preScrollPosition, originalPosition, originalOverflow,
                   originalBodyOverflow, entirePageSize, pixelRatio,
                   regionInScreenshot, screenshotParts, partPc, parts,
                   currentPosition, tilingRan, restorations, defaulted>>
    /\ UNCHANGED otherThanShot

\* the decision to tile, and the parts to capture
TilingDecision ==
    /\ shotPc = "tilingDecision"
    /\ IF SkipsTiling
         THEN /\ shotPc' = RestorationAfter("tiling")
              /\ UNCHANGED <<screenshotParts, partPc, currentPosition, tilingRan>>
         ELSE /\ screenshotParts' = ScreenshotParts
              /\ partPc' = [k \in 1..Len(ScreenshotParts) |-> "waiting"]
              /\ currentPosition' = [k \in 1..Len(ScreenshotParts) |-> Point(0, 0)]
              /\ tilingRan' = TRUE
              /\ shotPc' = "tiling"
    /\ UNCHANGED <<fullPage, hideScrollbars, useCssTransition, checkFrameOrElement,
                   hasRegionProvider, pageSize, bodyStyledHidden, docOverflow,
                   bodyOverflow, scrollPosition, preDocOverflow, preBodyOverflow,
                   preScrollPosition, originalPosition, originalOverflow,
                   originalBodyOverflow, entirePageSize, pixelRatio,
                   regionInScreenshot, imageObject, screenshot, parts, shotOutcome,
                   shotError, restorations, defaulted>>
    /\ UNCHANGED otherThanShot

\* _processPart: the callback of a part runs; the 0,0 part is the image already
\* taken, for any other setPosition is called
ProcessPart ==
    /\ shotPc = "tiling"
    /\ \E k \in 1..Len(screenshotParts) :
         /\ partPc[k] = "waiting"
         /\ ChainedAfter(k)
         /\ IF IsOriginPart(screenshotParts[k])
              THEN /\ parts' = Append(parts, [size |-> imageObject,
                                              position |-> Point(0, 0), of |-> k])
                   /\ partPc' = [partPc EXCEPT ![k] = "done"]
              ELSE /\ partPc' = [partPc EXCEPT ![k] = "setPosition"]
                   /\ UNCHANGED parts
    /\ UNCHANGED <<fullPage, hideScrollbars, useCssTransition, checkFrameOrElement,
                   hasRegionProvider, pageSize, bodyStyledHidden, docOverflow,
                   bodyOverflow, scrollPosition, preDocOverflow, preBodyOverflow,
                   preScrollPosition, originalPosition, originalOverflow,
                   originalBodyOverflow, entirePageSize, pixelRatio,
                   regionInScreenshot, imageObject, screenshot, screenshotParts,
                   currentPosition, shotPc, shotOutcome, shotError, tilingRan,
                   restorations, defaulted>>
    /\ UNCHANGED otherThanShot

\* _processPart: positionProvider.setPosition(partPosition) settles
PartSetPosition ==
    /\ shotPc = "tiling"
    /\ \E k \in 1..Len(screenshotParts) :
         /\ partPc[k] = "setPosition"
         /\ \/ /\ scrollPosition' \in Achieved(PartPosition(screenshotParts[k]))
               /\ partPc' = [partPc EXCEPT ![k] = "getCurrentPosition"]
               /\ UNCHANGED <<shotPc, shotOutcome, shotError>>
            \/ /\ ShotHung
               /\ partPc' = [partPc EXCEPT ![k] = "hung"]
               /\ UNCHANGED scrollPosition
    /\ UNCHANGED <<fullPage, hideScrollbars, useCssTransition, checkFrameOrElement,
                   hasRegionProvider, pageSize, bodyStyledHidden, docOverflow,
                   bodyOverflow, preDocOverflow, preBodyOverflow, preScrollPosition,
                   originalPosition, originalOverflow, originalBodyOverflow,
                   entirePageSize, pixelRatio, regionInScreenshot, imageObject,
                   screenshot, screenshotParts, parts, currentPosition, tilingRan,
                   restorations, defaulted>>
    /\ UNCHANGED otherThanShot

\* _processPart: positionProvider.getCurrentPosition() settles
PartGetPosition ==
    /\ shotPc = "tiling"
    /\ \E k \in 1..Len(screenshotParts) :
         /\ partPc[k] = "getCurrentPosition"
         /\ \/ /\ currentPosition' = [currentPosition EXCEPT ![k] = scrollPosition]
               /\ partPc' = [partPc EXCEPT ![k] = "capture"]
               /\ UNCHANGED <<shotPc, shotOutcome, shotError>>
            \/ /\ ShotHung
               /\ partPc' = [partPc EXCEPT ![k] = "hung"]
               /\ UNCHANGED currentPosition
    /\ UNCHANGED <<fullPage, hideScrollbars, useCssTransition, checkFrameOrElement,
                   hasRegionProvider, pageSize, bodyStyledHidden, docOverflow,
                   bodyOverflow, scrollPosition, preDocOverflow, preBodyOverflow,
                   preScrollPosition, originalPosition, originalOverflow,
                   originalBodyOverflow, entirePageSize, pixelRatio,
                   regionInScreenshot, imageObject, screenshot, screenshotParts,
                   parts, tilingRan, restorations, defaulted>>
    /\ UNCHANGED otherThanShot

\* _processPart: _captureViewport and asObject settle, and the push to parts
PartCapture ==
    /\ shotPc = "tiling"
    /\ \E k \in 1..Len(screenshotParts) :
         /\ partPc[k] = "capture"
         /\ \/ /\ parts' = Append(parts,
                      [size |-> CapturedSize,
                       position |-> RecordedPosition(
                           PartPosition(screenshotParts[k]), currentPosition[k]),
                       of |-> k])
               /\ partPc' = [partPc EXCEPT ![k] = "done"]
               /\ UNCHANGED <<shotPc, shotOutcome, shotError>>
            \/ /\ ShotHung
               /\ partPc' = [partPc EXCEPT ![k] = "hung"]
               /\ UNCHANGED parts
    /\ UNCHANGED <<fullPage, hideScrollbars, useCssTransition, checkFrameOrElement,
                   hasRegionProvider, pageSize, bodyStyledHidden, docOverflow,
                   bodyOverflow, scrollPosition, preDocOverflow, preBodyOverflow,
                   preScrollPosition, originalPosition, originalOverflow,
                   originalBodyOverflow, entirePageSize, pixelRatio,
                   regionInScreenshot, imageObject, screenshot, screenshotParts,
                   currentPosition, tilingRan, restorations, defaulted>>
    /\ UNCHANGED otherThanShot

\* ImageUtils.stitchImage(entirePageSize, parts) after the promise of the last part
Stitch ==
    /\ shotPc = "tiling"
    /\ partPc[Len(partPc)] = "done"
    /\ \/ /\ screenshot' = Image(entirePageSize, TRUE)
          /\ shotPc' = RestorationAfter("tiling")
          /\ UNCHANGED <<shotOutcome, shotError>>
       \/ /\ ShotHung
          /\ UNCHANGED screenshot
    /\ UNCHANGED <<fullPage, hideScrollbars, useCssTransition, checkFrameOrElement,
                   hasRegionProvider, pageSize, bodyStyledHidden, docOverflow,
                   bodyOverflow, scrollPosition, preDocOverflow, preBodyOverflow,
                   preScrollPosition, originalPosition, originalOverflow,
                   originalBodyOverflow, entirePageSize, pixelRatio,
                   regionInScreenshot, imageObject, screenshotParts, partPc, parts,
                   currentPosition, tilingRan, restorations, defaulted>>
    /\ UNCHANGED otherThanShot

\* setOverflow(browser, originalOverflow) if the scrollbars were hidden
RestoreOverflow ==
    /\ shotPc = "restoreOverflow"
    /\ IF hideScrollbars
         THEN /\ restorations' = Append(restorations, "overflow")
              /\ \/ /\ docOverflow' = originalOverflow[1]
                    /\ shotPc' = RestorationAfter("restoreOverflow")
                    /\ UNCHANGED <<shotOutcome, shotError>>
                 \/ /\ ShotRejected
                    /\ UNCHANGED docOverflow
         ELSE /\ shotPc' = RestorationAfter("restoreOverflow")
              /\ UNCHANGED <<restorations, docOverflow, shotOutcome, shotError>>
    /\ UNCHANGED <<fullPage, hideScrollbars, useCssTransition, checkFrameOrElement,
                   hasRegionProvider, pageSize, bodyStyledHidden, bodyOverflow,
                   scrollPosition, preDocOverflow, preBodyOverflow,
                   preScrollPosition, originalPosition, originalOverflow,
                   originalBodyOverflow, entirePageSize, pixelRatio,
                   regionInScreenshot, imageObject, screenshot, screenshotParts,
                   partPc, parts, currentPosition, tilingRan, defaulted>>
    /\ UNCHANGED otherThanShot

\* setBodyOverflow(browser, originalBodyOverflow) if (originalBodyOverflow)
RestoreBodyOverflow ==
    /\ shotPc = "restoreBodyOverflow"
    /\ IF Truthy(originalBodyOverflow)
         THEN /\ restorations' = Append(restorations, "bodyOverflow")
              /\ \/ /\ bodyOverflow' = originalBodyOverflow[1]
                    /\ shotPc' = RestorationAfter("restoreBodyOverflow")
                    /\ UNCHANGED <<shotOutcome, shotError>>
                 \/ /\ ShotRejected
                    /\ UNCHANGED bodyOverflow
         ELSE /\ shotPc' = RestorationAfter("restoreBodyOverflow")
              /\ UNCHANGED <<restorations, bodyOverflow, shotOutcome, shotError>>
    /\ UNCHANGED <<fullPage, hideScrollbars, useCssTransition, checkFrameOrElement,
                   hasRegionProvider, pageSize, bodyStyledHidden, docOverflow,
                   scrollPosition, preDocOverflow, preBodyOverflow,
                   preScrollPosition, originalPosition, originalOverflow,
                   originalBodyOverflow, entirePageSize, pixelRatio,
                   regionInScreenshot, imageObject, screenshot, screenshotParts,
                   partPc, parts, currentPosition, tilingRan, defaulted>>
    /\ UNCHANGED otherThanShot

\* positionProvider.restoreState(originalPosition) of a full page screenshot
RestoreState ==
    /\ shotPc = "restoreState"
    /\ IF fullPage
         THEN /\ restorations' = Append(restorations, "state")
              /\ \/ /\ scrollPosition' = originalPosition[1]
                    /\ shotPc' = RestorationAfter("restoreState")
                    /\ UNCHANGED <<shotOutcome, shotError>>
                 \/ /\ ShotRejected
                    /\ UNCHANGED scrollPosition
         ELSE /\ shotPc' = RestorationAfter("restoreState")
              /\ UNCHANGED <<restorations, scrollPosition, shotOutcome, shotError>>
    /\ UNCHANGED <<fullPage, hideScrollbars, useCssTransition, checkFrameOrElement,
                   hasRegionProvider, pageSize, bodyStyledHidden, docOverflow,
                   bodyOverflow, preDocOverflow, preBodyOverflow, preScrollPosition,
                   originalPosition, originalOverflow, originalBodyOverflow,
                   entirePageSize, pixelRatio, regionInScreenshot, imageObject,
                   screenshot, screenshotParts, partPc, parts, currentPosition,
                   tilingRan, defaulted>>
    /\ UNCHANGED otherThanShot

\* screenshot.cropImage(regionInScreenshot) of a region check, and the result
FinalCrop ==
    /\ shotPc = "finalCrop"
    /\ IF ~checkFrameOrElement /\ regionInScreenshot /= <<>>
         THEN \/ /\ screenshot' = Image(RegionSize(regionInScreenshot[1]),
                                        screenshot.stitched)
                 /\ ShotResolved
              \/ /\ ShotRejected
                 /\ UNCHANGED screenshot
         ELSE /\ ShotResolved
              /\ UNCHANGED screenshot
    /\ UNCHANGED <<fullPage, hideScrollbars, useCssTransition, checkFrameOrElement,
                   hasRegionProvider, pageSize, bodyStyledHidden, docOverflow,
                   bodyOverflow, scrollPosition, preDocOverflow, preBodyOverflow,
                   preScrollPosition, originalPosition, originalOverflow,
                   originalBodyOverflow, entirePageSize, pixelRatio,
                   regionInScreenshot, imageObject, screenshotParts, partPc, parts,
                   currentPosition, tilingRan, restorations, defaulted>>
    /\ UNCHANGED otherThanShot

\* Pages and regions of frame or element checks for the tiling alone: low regions,
\* whose captures are at most MAX_SCROLLBAR_SIZE + MIN_SCREENSHOT_PART_HEIGHT high,
\* on pages of a few tiles.
TilingScenarios ==
    {[page |-> Size(100, 110), region |-> <<>>],
     [page |-> Size(100, 150), region |-> <<>>],
     [page |-> Size(160, 110), region |-> <<>>],
     [page |-> Size(160, 20), region |-> <<Region(0, 5, 100, 12)>>],
     [page |-> Size(100, 25), region |-> <<Region(0, 5, 100, 55)>>],
     [page |-> Size(100, 75), region |-> <<Region(0, 5, 100, 70)>>],
     [page |-> Size(160, 110), region |-> <<Region(0, 5, 100, 105)>>]}

\* getScreenshot after step #5: the 0,0 tile is captured, the scrollbars were not
\* hidden, and the tiling promise is about to be made
TilingInit ==
    /\ fullPage \in BOOLEAN
    /\ checkFrameOrElement \in BOOLEAN
    /\ useCssTransition = FALSE
    /\ hideScrollbars = FALSE
    /\ bodyStyledHidden = FALSE
    /\ \E scenario \in TilingScenarios :
          /\ pageSize = scenario.page
          /\ entirePageSize = scenario.page
          /\ regionInScreenshot = scenario.region
          /\ hasRegionProvider = (scenario.region /= <<>>)
    /\ docOverflow = ""
    /\ bodyOverflow = ""
    /\ scrollPosition = Point(0, 0)
    /\ preDocOverflow = docOverflow
    /\ preBodyOverflow = bodyOverflow
    /\ preScrollPosition \in {p \in InitialScrollPositions : ClampScroll(p, pageSize) = p}
    /\ originalPosition = IF fullPage THEN <<preScrollPosition>> ELSE <<>>
    /\ originalOverflow = <<>>
    /\ originalBodyOverflow = <<>>
    /\ pixelRatio \in PixelRatios
    /\ imageObject = CapturedSize
    /\ screenshot = Image(CapturedSize, FALSE)
    /\ screenshotParts = <<>>
    /\ parts = <<>>
    /\ partPc = <<>>
    /\ currentPosition = <<>>
    /\ shotPc = "tilingDecision"
    /\ shotOutcome = "pending"
    /\ shotError = ""
    /\ tilingRan = FALSE
    /\ restorations = <<>>
    /\ defaulted = {}

\* the tiling promise of getScreenshot
TilingNext ==
    \/ TilingDecision
    \/ ProcessPart
    \/ PartSetPosition
    \/ PartGetPosition
    \/ PartCapture
    \/ Stitch

ShotNext ==
    \/ GetEntireSize
    \/ GetDevicePixelRatio
    \/ HideScrollbars
    \/ IsBodyOverflowHidden
    \/ SetBodyOverflowInitial
    \/ GetState
    \/ ScrollToOrigin
    \/ CheckOrigin
    \/ ResolveRegion
    \/ CaptureOrigin
    \/ TilingDecision
    \/ ProcessPart
    \/ PartSetPosition
    \/ PartGetPosition
    \/ PartCapture
    \/ Stitch
    \/ RestoreOverflow
    \/ RestoreBodyOverflow
    \/ RestoreState
    \/ FinalCrop

(***************************************************************************)
(* VIEWPORT CAPTURE (_captureViewport)                                     *)
(***************************************************************************)

\* The arguments of _captureViewport explored. scaleProvider is 0 without a scale
\* provider factory, and n for a provider whose scale ratio is 1 / n.
CaptureArguments ==
    [cutProvider : BOOLEAN,
     scaleProvider : {0, 1, 2},
     regionInScreenshot : {<<>>, <<Region(0, 1, 2, 2)>>},
     isLandscape : BOOLEAN,
     automaticRotation : BOOLEAN,
     rotationDegrees : {0, 90},
     automaticRotationDegrees : {-90},
     saveDebugScreenshots : BOOLEAN,
     viewportSize : {Size(4, 6)}]

\* The sizes of the image browser.takeScreenshot() gives, and the scroll offsets
\* of the page.
RawSizes == {Size(4, 6), Size(8, 12), Size(12, 8)}
PageScrolls == {Point(0, 0), Point(0, 3)}

\* A bug: the automatic rotation chosen whatever the shape of the image.
AutoRotatesAnyShape(args, imageSize) == args.isLandscape /\ args.automaticRotation

\* isLandscape && automaticRotation && imageSize.height > imageSize.width
AutoRotates(args, imageSize) ==
    args.isLandscape /\ args.automaticRotation /\ imageSize.height > imageSize.width

\* imageSize.width <= viewportSize.width && imageSize.height <= viewportSize.height
FitsViewport(imageSize, viewport) ==
    imageSize.width <= viewport.width /\ imageSize.height <= viewport.height

\* GeometryUtils.scaleRegion(regionInScreenshot, 1 / scaleRatio), 1 / scaleRatio
\* being the whole number n
ScaleRegion(region, n) ==
    Region(region.left * n, region.top * n, region.width * n, region.height * n)

\* cutProvider.cut: the image without a header of 2 px
Cut(imageSize) == Size(imageSize.width, imageSize.height - 2)

\* cropImage: the part of the image inside the region
Cropped(imageSize, region) ==
    Size(Max(0, (IF region.left + region.width < imageSize.width
                   THEN region.left + region.width ELSE imageSize.width)
                - region.left),
         Max(0, (IF region.top + region.height < imageSize.height
                   THEN region.top + region.height ELSE imageSize.height)
                - region.top))

\* scaleImage by the ratio 1 / n
Scaled(imageSize, n) == Size(imageSize.width \div n, imageSize.height \div n)

\* rotateImage: a quarter turn swaps width and height
Rotated(imageSize, degrees) ==
    IF degrees \in {90, -90, 270, -270}
      THEN Size(imageSize.height, imageSize.width)
      ELSE imageSize

\* ".then": a callback of the chain runs when the call before it has settled
PreviousCallSettled == callInFlight = ""

\* a callback returns the promise of a call it makes
Issue(call) ==
    /\ callInFlight' = call
    /\ callsMade' = Append(callsMade, call)

\* a callback that makes no call
NoCall == UNCHANGED <<callInFlight, callsMade>>

\* _captureViewport is called: GeneralUtils.sleep(waitBeforeScreenshots) is started
CaptureInit ==
    /\ captureArgs \in CaptureArguments
    /\ rawSize \in RawSizes
    /\ pageScroll \in PageScrolls
    /\ capturePc = "afterSleep"
    /\ mutableImage = <<>>
    /\ scaleRatioInverse = 1
    /\ rotationDegrees = captureArgs.rotationDegrees
    /\ callInFlight = "sleep"
    /\ callsMade = <<"sleep">>
    /\ scaledRegion = <<>>
    /\ coordinates = <<>>
    /\ captureOutcome = "pending"

\* the callback of GeneralUtils.sleep: browser.takeScreenshot()
AfterSleep ==
    /\ capturePc = "afterSleep"
    /\ PreviousCallSettled
    /\ Issue("takeScreenshot")
    /\ capturePc' = "afterTakeScreenshot"
    /\ UNCHANGED <<captureArgs, rawSize, pageScroll, mutableImage,
                   scaleRatioInverse, rotationDegrees, scaledRegion, coordinates,
                   captureOutcome>>
    /\ UNCHANGED otherThanCapture

\* new MutableImage(new Buffer(screenshot64, 'base64')), and the debug copy of it
AfterTakeScreenshot ==
    /\ capturePc = "afterTakeScreenshot"
    /\ PreviousCallSettled
    /\ mutableImage' = <<rawSize>>
    /\ IF captureArgs.saveDebugScreenshots THEN Issue("saveImage original") ELSE NoCall
    /\ capturePc' = "cut"
    /\ UNCHANGED <<captureArgs, rawSize, pageScroll, scaleRatioInverse,
                   rotationDegrees, scaledRegion, coordinates, captureOutcome>>
    /\ UNCHANGED otherThanCapture

\* if (cutProvider) cutProvider.cut(mutableImage)
CutImage ==
    /\ capturePc = "cut"
    /\ PreviousCallSettled
    /\ IF captureArgs.cutProvider THEN Issue("cut") ELSE NoCall
    /\ capturePc' = "getSize"
    /\ UNCHANGED <<captureArgs, rawSize, pageScroll, mutableImage,
                   scaleRatioInverse, rotationDegrees, scaledRegion, coordinates,
                   captureOutcome>>
    /\ UNCHANGED otherThanCapture

\* mutableImage.getSize()
GetImageSize ==
    /\ capturePc = "getSize"
    /\ PreviousCallSettled
    /\ Issue("getSize")
    /\ capturePc' = "decide"
    /\ UNCHANGED <<captureArgs, rawSize, pageScroll, mutableImage,
                   scaleRatioInverse, rotationDegrees, scaledRegion, coordinates,
                   captureOutcome>>
    /\ UNCHANGED otherThanCapture

\* the callback of getSize: the rotation decision, the scale ratio of the scale
\* provider, and the crop to the region scaled by 1 / scaleRatio
DecideRotationAndScale ==
    /\ capturePc = "decide"
    /\ PreviousCallSettled
    /\ rotationDegrees' = IF AutoRotates(captureArgs, mutableImage[1])
                             THEN captureArgs.automaticRotationDegrees
                             ELSE rotationDegrees
    /\ scaleRatioInverse' = IF captureArgs.scaleProvider /= 0
                               THEN captureArgs.scaleProvider
                               ELSE scaleRatioInverse
    /\ IF captureArgs.regionInScreenshot /= <<>>
         THEN /\ scaledRegion' = <<ScaleRegion(captureArgs.regionInScreenshot[1],
                                               scaleRatioInverse')>>
              /\ Issue("cropImage")
         ELSE /\ NoCall
              /\ UNCHANGED scaledRegion
    /\ capturePc' = "saveCropped"
    /\ UNCHANGED <<captureArgs, rawSize, pageScroll, mutableImage, coordinates,
                   captureOutcome>>
    /\ UNCHANGED otherThanCapture

\* the debug copy of the cropped image
SaveCropped ==
    /\ capturePc = "saveCropped"
    /\ PreviousCallSettled
    /\ IF captureArgs.saveDebugScreenshots THEN Issue("saveImage cropped") ELSE NoCall
    /\ capturePc' = "scale"
    /\ UNCHANGED <<captureArgs, rawSize, pageScroll, mutableImage,
                   scaleRatioInverse, rotationDegrees, scaledRegion, coordinates,
                   captureOutcome>>
    /\ UNCHANGED otherThanCapture

\* if (scaleRatio !== 1) mutableImage.scaleImage(scaleRatio)
ScaleImage ==
    /\ capturePc = "scale"
    /\ PreviousCallSettled
    /\ IF scaleRatioInverse /= 1 THEN Issue("scaleImage") ELSE NoCall
    /\ capturePc' = "saveScaled"
    /\ UNCHANGED <<captureArgs, rawSize, pageScroll, mutableImage,
                   scaleRatioInverse, rotationDegrees, scaledRegion, coordinates,
                   captureOutcome>>
    /\ UNCHANGED otherThanCapture

\* the debug copy of the scaled image
SaveScaled ==
    /\ capturePc = "saveScaled"
    /\ PreviousCallSettled
    /\ IF captureArgs.saveDebugScreenshots THEN Issue("saveImage scaled") ELSE NoCall
    /\ capturePc' = "rotate"
    /\ UNCHANGED <<captureArgs, rawSize, pageScroll, mutableImage,
                   scaleRatioInverse, rotationDegrees, scaledRegion, coordinates,
                   captureOutcome>>
    /\ UNCHANGED otherThanCapture

\* if (rotationDegrees !== 0) mutableImage.rotateImage(rotationDegrees)
RotateImage ==
    /\ capturePc = "rotate"
    /\ PreviousCallSettled
    /\ IF rotationDegrees /= 0 THEN Issue("rotateImage") ELSE NoCall
    /\ capturePc' = "getSizeAgain"
    /\ UNCHANGED <<captureArgs, rawSize, pageScroll, mutableImage,
                   scaleRatioInverse, rotationDegrees, scaledRegion, coordinates,
                   captureOutcome>>
    /\ UNCHANGED otherThanCapture

\* mutableImage.getSize() of the image as transformed
GetFinalSize ==
    /\ capturePc = "getSizeAgain"
    /\ PreviousCallSettled
    /\ Issue("getSize again")
    /\ capturePc' = "tag"
    /\ UNCHANGED <<captureArgs, rawSize, pageScroll, mutableImage,
                   scaleRatioInverse, rotationDegrees, scaledRegion, coordinates,
                   captureOutcome>>
    /\ UNCHANGED otherThanCapture

\* the callback of the second getSize: a viewport screenshot is tagged with the
\* scroll position
TagScrollPosition ==
    /\ capturePc = "tag"
    /\ PreviousCallSettled
    /\ IF FitsViewport(mutableImage[1], captureArgs.viewportSize) THEN Issue("getCurrentScrollPosition") ELSE NoCall
    /\ capturePc' = "return"
    /\ UNCHANGED <<captureArgs, rawSize, pageScroll, mutableImage,
                   scaleRatioInverse, rotationDegrees, scaledRegion, coordinates,
                   captureOutcome>>
    /\ UNCHANGED otherThanCapture

\* return mutableImage: the promise of _captureViewport is resolved
ReturnImage ==
    /\ capturePc = "return"
    /\ PreviousCallSettled
    /\ captureOutcome' = "resolved"
    /\ capturePc' = "done"
    /\ UNCHANGED <<captureArgs, rawSize, pageScroll, mutableImage,
                   scaleRatioInverse, rotationDegrees, callInFlight, callsMade,
                   scaledRegion, coordinates>>
    /\ UNCHANGED otherThanCapture

\* The call in flight settles. A rejection ends the chain, but for the one of
\* getCurrentScrollPosition: the image is then tagged with {x: 0, y: 0}.
CallSettles ==
    /\ callInFlight /= ""
    /\ callInFlight' = ""
    /\ \/ /\ mutableImage' =
                 IF callInFlight = "cut" THEN <<Cut(mutableImage[1])>>
                 ELSE IF callInFlight = "cropImage"
                   THEN <<Cropped(mutableImage[1], scaledRegion[1])>>
                 ELSE IF callInFlight = "scaleImage"
                   THEN <<Scaled(mutableImage[1], scaleRatioInverse)>>
                 ELSE IF callInFlight = "rotateImage"
                   THEN <<Rotated(mutableImage[1], rotationDegrees)>>
                 ELSE mutableImage
          /\ coordinates' = IF callInFlight = "getCurrentScrollPosition"
                              THEN <<pageScroll>> ELSE coordinates
          /\ UNCHANGED <<capturePc, captureOutcome>>
       \/ /\ callInFlight = "getCurrentScrollPosition"
          /\ coordinates' = <<Point(0, 0)>>
          /\ UNCHANGED <<mutableImage, capturePc, captureOutcome>>
       \/ /\ callInFlight \notin {"sleep", "getCurrentScrollPosition"}
          /\ captureOutcome' = "rejected"
          /\ capturePc' = "done"
          /\ UNCHANGED <<mutableImage, coordinates>>
    /\ UNCHANGED <<captureArgs, rawSize, pageScroll, scaleRatioInverse,
                   rotationDegrees, callsMade, scaledRegion>>
    /\ UNCHANGED otherThanCapture

CaptureNext ==
    \/ AfterSleep
    \/ AfterTakeScreenshot
    \/ CutImage
    \/ GetImageSize
    \/ DecideRotationAndScale
    \/ SaveCropped
    \/ ScaleImage
    \/ SaveScaled
    \/ RotateImage
    \/ GetFinalSize
    \/ TagScrollPosition
    \/ ReturnImage
    \/ CallSettles

(***************************************************************************)
(* IMAGE BUFFER (MutableImage)                                             *)
(***************************************************************************)

\* The operations started on one image.
MaxOps == 3

\* A decoded pixel grid; id names the object (the decode that created it) and
\* edits counts the transforms applied to its pixels.
Grid(w, h, edits, id) == [width |-> w, height |-> h, edits |-> edits, id |-> id]

\* ImageUtils.packImage: the encoded bytes of a grid
Encoded(grid) == [decodable |-> TRUE, width |-> grid.width, height |-> grid.height,
                  edits |-> grid.edits]

\* Bytes that are not an image
Garbage == [decodable |-> FALSE, width |-> 0, height |-> 0, edits |-> 0]

\* The encoded bytes an image is constructed from.
InitialBuffers == {Encoded(Grid(4, 2, 0, 0)), Garbage}

\* The arguments of the operations explored.
CropRegions == {Region(1, 0, 2, 1)}
ScaleRatios == {1, 2}
RotateDegrees == {0, 90}

NoRegion == Region(0, 0, 0, 0)

Op(name, region, ratio, degrees) ==
    [name |-> name, region |-> region, ratio |-> ratio, degrees |-> degrees]

\* no operation started yet
NoOp == Op("none", NoRegion, 1, 0)

\* cropImage, scaleImage, rotateImage, getImageData with the arguments explored
GridOperations ==
    {Op("cropImage", r, 1, 0) : r \in CropRegions}
    \cup {Op("scaleImage", NoRegion, k, 0) : k \in ScaleRatios}
    \cup {Op("rotateImage", NoRegion, 1, d) : d \in RotateDegrees}
    \cup {Op("getImageData", NoRegion, 1, 0)}

\* A bug: rotateImage has no test of its argument.
OnlyScaleReturnsAtOnce(op) == op.name = "scaleImage" /\ op.ratio = 1

\* "if (scaleRatio === 1)" of scaleImage and "if (degrees === 0)" of rotateImage
ReturnsAtOnce(op) ==
    \/ op.name = "scaleImage" /\ op.ratio = 1
    \/ op.name = "rotateImage" /\ op.degrees = 0

\* the operations that start with _parseImage
ParseOperations == {op \in GridOperations : ~ReturnsAtOnce(op)}

\* scaleImage(1) and rotateImage(0): they return at once
NoOperations == {op \in GridOperations : ReturnsAtOnce(op)}

\* getImageBuffer, asObject, saveImage, getImagePart: they start with _packImage
PackOperations ==
    {Op(n, NoRegion, 1, 0) : n \in {"getImageBuffer", "asObject", "saveImage"}}
    \cup {Op("getImagePart", r, 1, 0) : r \in CropRegions}

Call(op, at, bytes, grid) == [op |-> op, pc |-> at, bytes |-> bytes, grid |-> grid]

\* The calls without call i.
Settle(i) == [k \in 1..(Len(calls) - 1) |-> IF k < i THEN calls[k] ELSE calls[k + 1]]

Moved(i, at) == [calls EXCEPT ![i].pc = at]

\* ImageUtils.parseImage: the grid of decodable bytes, a new object
Decoded(bytes, id) == Grid(bytes.width, bytes.height, bytes.edits, id)

\* ImageUtils.cropImage, scaleImage, rotateImage: the grid after the transform
Transformed(op, g) ==
    IF op.name = "cropImage"
      THEN LET l == IF op.region.left < g.width THEN op.region.left ELSE g.width
               t == IF op.region.top < g.height THEN op.region.top ELSE g.height
               r == IF op.region.left + op.region.width < g.width
                      THEN op.region.left + op.region.width ELSE g.width
               b == IF op.region.top + op.region.height < g.height
                      THEN op.region.top + op.region.height ELSE g.height
           IN Grid(r - l, b - t, g.edits + 1, g.id)
    ELSE IF op.name = "scaleImage"
      THEN Grid(g.width * op.ratio, g.height * op.ratio, g.edits + 1, g.id)
    ELSE IF op.degrees \in {90, 270}
      THEN Grid(g.height, g.width, g.edits + 1, g.id)
      ELSE Grid(g.width, g.height, g.edits + 1, g.id)

\* the operations that change the pixel grid: cropImage, scaleImage, rotateImage
IsTransform(op) == op.name \in {"cropImage", "scaleImage", "rotateImage"}

\* A bug: the bytes are dropped by a transform that found the image not decoded.
InvalidatesUnparsed == <<>>

\* "return that" of a transform that found the image not decoded: the bytes stay
BytesIfNotParsed == imageBuffer

\* every decode gives a new grid object
NewGridId == IF imageBmp = <<>> THEN 1 ELSE imageBmp[1].id + 1

\* _parseImage: "if (that._isParsed || disabled) return resolve()"
ParseIsSkipped == isParsed \/ disabled

\* _packImage: "if (!that._isParsed || that._imageBuffer || disabled) return resolve()"
PackIsSkipped == ~isParsed \/ imageBuffer /= <<>> \/ disabled

\* _retrieveImageSize: "if (that._isParsed || that._width && that._height) return"
SizeIsKnown == isParsed \/ (imageWidth /= 0 /\ imageHeight /= 0)

ImageInit ==
    /\ disabled \in BOOLEAN
    /\ \E b \in InitialBuffers : imageBuffer = <<b>>
    /\ isParsed = FALSE
    /\ imageBmp = <<>>
    /\ imageWidth = 0
    /\ imageHeight = 0
    /\ calls = <<>>
    /\ nOps = 0
    /\ lastOp = NoOp
    /\ parseCalls = 0
    /\ packCalls = 0

\* cropImage, scaleImage, rotateImage or getImageData is called: _parseImage runs
StartParseOperation ==
    /\ nOps < MaxOps
    /\ nOps' = nOps + 1
    /\ \E op \in ParseOperations :
         /\ lastOp' = op
         /\ IF ParseIsSkipped
              THEN /\ calls' = Append(calls, Call(op, "parsed", <<>>, <<>>))
                   /\ UNCHANGED parseCalls
              ELSE /\ calls' = Append(calls, Call(op, "parsing", imageBuffer, <<>>))
                   /\ parseCalls' = parseCalls + 1
    /\ UNCHANGED <<disabled, imageBuffer, isParsed, imageBmp, imageWidth, imageHeight,
                   packCalls>>
    /\ UNCHANGED otherThanImage

\* scaleImage(1) or rotateImage(0) is called
StartNoOperation ==
    /\ nOps < MaxOps
    /\ nOps' = nOps + 1
    /\ \E op \in NoOperations : lastOp' = op
    /\ UNCHANGED <<disabled, imageBuffer, isParsed, imageBmp, imageWidth, imageHeight,
                   calls, parseCalls, packCalls>>
    /\ UNCHANGED otherThanImage

\* getImageBuffer, asObject, saveImage or getImagePart is called: _packImage runs
StartPackOperation ==
    /\ nOps < MaxOps
    /\ nOps' = nOps + 1
    /\ \E op \in PackOperations :
         /\ lastOp' = op
         /\ IF PackIsSkipped
              THEN /\ calls' = Append(calls, Call(op, "packed", <<>>, <<>>))
                   /\ UNCHANGED packCalls
              ELSE /\ calls' = Append(calls, Call(op, "packing", <<>>, imageBmp))
                   /\ packCalls' = packCalls + 1
    /\ UNCHANGED <<disabled, imageBuffer, isParsed, imageBmp, imageWidth, imageHeight,
                   parseCalls>>
    /\ UNCHANGED otherThanImage

\* getSize, getWidth or getHeight is called: _retrieveImageSize
GetSize ==
    /\ nOps < MaxOps
    /\ nOps' = nOps + 1
    /\ lastOp' = Op("getSize", NoRegion, 1, 0)
    /\ IF SizeIsKnown \/ imageBuffer = <<>>
         THEN UNCHANGED <<imageWidth, imageHeight>>
         ELSE /\ imageWidth' = imageBuffer[1].width
              /\ imageHeight' = imageBuffer[1].height
    /\ UNCHANGED <<disabled, imageBuffer, isParsed, imageBmp, calls, parseCalls,
                   packCalls>>
    /\ UNCHANGED otherThanImage

\* _parseImage: ImageUtils.parseImage settles
ParseImageDone ==
    \E i \in 1..Len(calls) :
        /\ calls[i].pc = "parsing"
        /\ IF calls[i].bytes /= <<>> /\ calls[i].bytes[1].decodable
             THEN LET imageData == Decoded(calls[i].bytes[1], NewGridId) IN
                  /\ imageBmp' = <<imageData>>
                  /\ imageWidth' = imageData.width
                  /\ imageHeight' = imageData.height
                  /\ isParsed' = TRUE
                  /\ calls' = Moved(i, "parsed")
             ELSE \* the rejection has no handler: the promise of _parseImage stays pending
                  /\ calls' = Moved(i, "hung")
                  /\ UNCHANGED <<imageBmp, imageWidth, imageHeight, isParsed>>
        /\ UNCHANGED <<disabled, imageBuffer, nOps, lastOp, parseCalls, packCalls>>
        /\ UNCHANGED otherThanImage

\* the callback after _parseImage: the transform starts, or the grid is returned
AfterParse ==
    \E i \in 1..Len(calls) :
        /\ calls[i].pc = "parsed"
        /\ IF IsTransform(calls[i].op) /\ isParsed
             THEN /\ calls' = [calls EXCEPT ![i].pc = "transforming",
                                            ![i].grid = imageBmp]
                  /\ UNCHANGED imageBuffer
             ELSE /\ calls' = Settle(i)
                  /\ imageBuffer' = IF IsTransform(calls[i].op)
                                      THEN BytesIfNotParsed
                                      ELSE imageBuffer
        /\ UNCHANGED <<disabled, isParsed, imageBmp, imageWidth,
                       imageHeight, nOps, lastOp, parseCalls, packCalls>>
        /\ UNCHANGED otherThanImage

\* ImageUtils.cropImage, scaleImage or rotateImage settles, and its callback runs
TransformDone ==
    \E i \in 1..Len(calls) :
        /\ calls[i].pc = "transforming"
        /\ LET bmp == IF imageBmp[1].id = calls[i].grid[1].id
                        THEN Transformed(calls[i].op, imageBmp[1])
                        ELSE imageBmp[1]
           IN /\ imageBmp' = <<bmp>>
              /\ imageBuffer' = <<>>
              /\ imageWidth' = bmp.width
              /\ imageHeight' = bmp.height
        /\ calls' = Settle(i)
        /\ UNCHANGED <<disabled, isParsed, nOps, lastOp, parseCalls, packCalls>>
        /\ UNCHANGED otherThanImage

\* _packImage: ImageUtils.packImage settles
PackImageDone ==
    \E i \in 1..Len(calls) :
        /\ calls[i].pc = "packing"
        /\ \E g \in {calls[i].grid[1]}
                    \cup {b \in {imageBmp[1]} : b.id = calls[i].grid[1].id} :
               imageBuffer' = <<Encoded(g)>>
        /\ calls' = Moved(i, "packed")
        /\ UNCHANGED <<disabled, isParsed, imageBmp, imageWidth, imageHeight, nOps, lastOp,
                       parseCalls, packCalls>>
        /\ UNCHANGED otherThanImage

\* the callback after _packImage: the bytes (or the object, the file, the part)
AfterPack ==
    \E i \in 1..Len(calls) :
        /\ calls[i].pc = "packed"
        /\ IF calls[i].op.name = "asObject" /\ ~SizeIsKnown /\ imageBuffer /= <<>>
             THEN /\ imageWidth' = imageBuffer[1].width
                  /\ imageHeight' = imageBuffer[1].height
             ELSE UNCHANGED <<imageWidth, imageHeight>>
        /\ calls' = Settle(i)
        /\ UNCHANGED <<disabled, imageBuffer, isParsed, imageBmp, nOps, lastOp, parseCalls,
                       packCalls>>
        /\ UNCHANGED otherThanImage

ImageNext ==
    \/ StartParseOperation
    \/ StartNoOperation
    \/ StartPackOperation
    \/ GetSize
    \/ ParseImageDone
    \/ AfterParse
    \/ TransformDone
    \/ PackImageDone
    \/ AfterPack

\* probe: the decodes and the encodes in flight
ParsesInFlight == Cardinality({i \in 1..Len(calls) : calls[i].pc = "parsing"})
PacksInFlight == Cardinality({i \in 1..Len(calls) : calls[i].pc = "packing"})

vars == <<sizerVars, tilerVars, imageVars, shotVars, captureVars, regionVars>>

\* The variables of a component that is not running keep their initial values.
SizerIdle ==
    /\ requiredSize = Size(0, 0)
    /\ windowSize = Size(0, 0)
    /\ pc = "idle"
    /\ phase = "coarse1"
    /\ actualViewportSize = Size(0, 0)
    /\ browserSize = Size(0, 0)
    /\ requiredBrowserSize = Size(0, 0)
    /\ retries = 0
    /\ widthDiff = 0
    /\ heightDiff = 0
    /\ widthStep = 0
    /\ heightStep = 0
    /\ currWidthChange = 0
    /\ currHeightChange = 0
    /\ retriesLeft = 0
    /\ lastRequiredBrowserSize = <<>>
    /\ outcome = "pending"
    /\ error = ""
    /\ setSizeCalls = 0
    /\ lastRequest = "none"
    /\ everHonored = FALSE
    /\ nMeasure = 0
    /\ nRequests = 0
    /\ nudges = 0
    /\ movedWindow = FALSE
    /\ moveFailed = FALSE
    /\ readWindow = FALSE

ShotIdle ==
    /\ fullPage = FALSE
    /\ useCssTransition = FALSE
    /\ hideScrollbars = FALSE
    /\ checkFrameOrElement = FALSE
    /\ hasRegionProvider = FALSE
    /\ pageSize = Size(0, 0)
    /\ bodyStyledHidden = FALSE
    /\ docOverflow = ""
    /\ bodyOverflow = ""
    /\ scrollPosition = Point(0, 0)
    /\ preDocOverflow = ""
    /\ preBodyOverflow = ""
    /\ preScrollPosition = Point(0, 0)
    /\ originalPosition = <<>>
    /\ originalOverflow = <<>>
    /\ originalBodyOverflow = <<>>
    /\ entirePageSize = Size(0, 0)
    /\ pixelRatio = 0
    /\ regionInScreenshot = <<>>
    /\ imageObject = Size(0, 0)
    /\ screenshot = Image(Size(0, 0), FALSE)
    /\ screenshotParts = <<>>
    /\ parts = <<>>
    /\ partPc = <<>>
    /\ currentPosition = <<>>
    /\ shotPc = "idle"
    /\ shotOutcome = "pending"
    /\ shotError = ""
    /\ tilingRan = FALSE
    /\ restorations = <<>>
    /\ defaulted = {}

ImageIdle ==
    /\ disabled = FALSE
    /\ imageBuffer = <<>>
    /\ isParsed = FALSE
    /\ imageBmp = <<>>
    /\ imageWidth = 0
    /\ imageHeight = 0
    /\ calls = <<>>
    /\ nOps = MaxOps
    /\ lastOp = NoOp
    /\ parseCalls = 0
    /\ packCalls = 0

TilerIdle ==
    /\ containerRegion = Region(0, 0, 0, 0)
    /\ subRegionSize = Size(0, 0)
    /\ isFixedSize = FALSE
    /\ tilerPc = "idle"
    /\ subRegions = <<>>
    /\ tilerThrew = FALSE

CaptureIdle ==
    /\ captureArgs = [cutProvider |-> FALSE, scaleProvider |-> 0,
                      regionInScreenshot |-> <<>>, isLandscape |-> FALSE,
                      automaticRotation |-> FALSE, rotationDegrees |-> 0,
                      automaticRotationDegrees |-> -90,
                      saveDebugScreenshots |-> FALSE, viewportSize |-> Size(0, 0)]
    /\ rawSize = Size(0, 0)
    /\ pageScroll = Point(0, 0)
    /\ capturePc = "idle"
    /\ mutableImage = <<>>
    /\ scaleRatioInverse = 1
    /\ rotationDegrees = 0
    /\ callInFlight = ""
    /\ callsMade = <<>>
    /\ scaledRegion = <<>>
    /\ coordinates = <<>>
    /\ captureOutcome = "pending"

RegionIdle ==
    /\ thisRegion = <<>>
    /\ regionParts = <<>>
    /\ regionThrew = FALSE
    /\ regionOps = 0
    /\ lastRegionOp = RegionOp("idle", EMPTY)

\* setViewportSize against a browser
Init ==
    SizerInit /\ TilerIdle /\ ImageIdle /\ ShotIdle /\ CaptureIdle /\ RegionIdle

Spec == Init /\ [][SizerNext]_vars

\* Every driver call settles, and every callback that can run does run.
SizerLiveSpec == Init /\ [][SizerNext]_vars /\ WF_vars(SizerNext)

\* Region.getSubRegions on every region and tile size within the bounds
TilerSpecInit ==
    TilerInit /\ SizerIdle /\ ImageIdle /\ ShotIdle /\ CaptureIdle /\ RegionIdle

TilerSpec == TilerSpecInit /\ [][TilerNext]_vars

\* MutableImage operations, started at any time, settling in any order
ImageSpecInit ==
    ImageInit /\ SizerIdle /\ TilerIdle /\ ShotIdle /\ CaptureIdle /\ RegionIdle

ImageSpec == ImageSpecInit /\ [][ImageNext]_vars

\* getScreenshot against a browser and a position provider
ShotSpecInit ==
    ShotInit /\ SizerIdle /\ TilerIdle /\ ImageIdle /\ CaptureIdle /\ RegionIdle

ShotSpec == ShotSpecInit /\ [][ShotNext]_vars

\* The tiling promise of getScreenshot on low and on viewport-high captures
TilingSpecInit ==
    TilingInit /\ SizerIdle /\ TilerIdle /\ ImageIdle /\ CaptureIdle /\ RegionIdle

TilingSpec == TilingSpecInit /\ [][TilingNext]_vars

\* One call of _captureViewport
CaptureSpecInit ==
    CaptureInit /\ SizerIdle /\ TilerIdle /\ ImageIdle /\ ShotIdle /\ RegionIdle

CaptureSpec == CaptureSpecInit /\ [][CaptureNext]_vars

\* Operations applied one after the other to a region
RegionSpecInit ==
    RegionInit /\ SizerIdle /\ TilerIdle /\ ImageIdle /\ ShotIdle /\ CaptureIdle

RegionSpec == RegionSpecInit /\ [][RegionNext]_vars

\* Every collaborator call settles, and every callback that can run does run.
ShotLiveSpec == ShotSpecInit /\ [][ShotNext]_vars /\ WF_vars(ShotNext)

(***************************************************************************)
(* PROPERTIES                                                              *)
(***************************************************************************)

\* The pixels of a region.
Pixels(r) ==
    {<<x, y>> : x \in r.left..(r.left + r.width - 1), y \in r.top..(r.top + r.height - 1)}

Tiles == {subRegions[i] : i \in 1..Len(subRegions)}

Min(a, b) == IF a <= b THEN a ELSE b

\* C1: setViewportSize resolves only when the most recently measured viewport size
\* equals the requested size; a stalled stepwise search is not a success.
C1_ResolvesOnlyOnMatch ==
    outcome = "resolved" => SameSize(actualViewportSize, requiredSize)

\* C2: whenever getScreenshot settles, by success or by failure, the overflow
\* styles and the scroll state it saved have their pre-capture values again.
C2_RestoredOnEveryExit ==
    (shotPc = "done" /\ shotOutcome \in {"resolved", "rejected"}) =>
        /\ originalOverflow /= <<>> => docOverflow = preDocOverflow
        /\ originalBodyOverflow /= <<>> => bodyOverflow = preBodyOverflow
        /\ originalPosition /= <<>> => scrollPosition = preScrollPosition

\* C3: one image never has two decodes in flight, and its bytes are decoded at
\* most once.
C3_AtMostOneDecodeInFlight ==
    ParsesInFlight <= 1 /\ parseCalls <= 1

\* C4: one image never has two encodes in flight.
C4_AtMostOneEncodeInFlight ==
    PacksInFlight <= 1

\* C5: varying-size tiling of a region with a tile size that fits in it gives
\* tiles that cover exactly the region and do not overlap; a tile is smaller than
\* the tile size only in the last column or the last row.
C5_VaryingTilesPartition ==
    (/\ tilerPc = "returned" /\ ~isFixedSize
     /\ containerRegion.width > 0 /\ containerRegion.height > 0
     /\ 0 < subRegionSize.width /\ subRegionSize.width <= containerRegion.width
     /\ 0 < subRegionSize.height /\ subRegionSize.height <= containerRegion.height) =>
        /\ ~tilerThrew
        /\ UNION {Pixels(t) : t \in Tiles} = Pixels(containerRegion)
        /\ \A i, j \in 1..Len(subRegions) :
              i /= j => Pixels(subRegions[i]) \cap Pixels(subRegions[j]) = {}
        /\ \A t \in Tiles :
              /\ 0 < t.width /\ t.width <= subRegionSize.width
              /\ 0 < t.height /\ t.height <= subRegionSize.height
              /\ t.width < subRegionSize.width =>
                    t.left + t.width = containerRegion.left + containerRegion.width
              /\ t.height < subRegionSize.height =>
                    t.top + t.height = containerRegion.top + containerRegion.height

C5_Witness ==
    /\ tilerPc = "returned" /\ ~isFixedSize
    /\ containerRegion = Region(0, 0, 3, 3)
    /\ subRegionSize = Size(2, 2)
    /\ subRegions = <<Region(0, 0, 2, 2), Region(2, 0, 1, 2),
                      Region(0, 2, 2, 1), Region(2, 2, 1, 1)>>

\* C6 as stated: fixed-size tiling with a positive tile size gives one tile equal
\* to the region when the tile size is at least the region in both dimensions,
\* and otherwise tiles that all have exactly the tile size.
C6_FixedTilesHaveRequestedSize ==
    (/\ tilerPc = "returned" /\ isFixedSize
     /\ subRegionSize.width > 0 /\ subRegionSize.height > 0) =>
        IF /\ subRegionSize.width >= containerRegion.width
           /\ subRegionSize.height >= containerRegion.height
          THEN subRegions = <<containerRegion>>
          ELSE \A t \in Tiles : /\ t.width = subRegionSize.width
                                /\ t.height = subRegionSize.height

\* C6 as amended: fixed-size tiling with a positive tile size gives tiles that all
\* have the tile size clipped to the region, on each axis the smaller of the two;
\* and one tile equal to the region when the tile size is at least the region in
\* both dimensions.
C6_FixedTilesHaveNormalizedSize ==
    (/\ tilerPc = "returned" /\ isFixedSize
     /\ subRegionSize.width > 0 /\ subRegionSize.height > 0) =>
        /\ ~tilerThrew
        /\ \A t \in Tiles :
              /\ t.width = Min(subRegionSize.width, containerRegion.width)
              /\ t.height = Min(subRegionSize.height, containerRegion.height)
        /\ (/\ subRegionSize.width >= containerRegion.width
            /\ subRegionSize.height >= containerRegion.height) =>
              subRegions = <<containerRegion>>

C6_Witness ==
    /\ tilerPc = "returned" /\ isFixedSize
    /\ containerRegion = Region(0, 0, 2, 3)
    /\ subRegionSize = Size(3, 2)
    /\ subRegions = <<Region(0, 0, 2, 2), Region(0, 1, 2, 2)>>

\* C7: a run of setViewportSize in which every resize request was abandoned ends
\* in a failure that says the resize was unachievable, not in success and not in
\* the failure of an exhausted search.
C7_AbandonedRunsEndUnachievable ==
    (/\ pc = "done" /\ outcome \in {"resolved", "rejected"}
     /\ nRequests > 0 /\ ~everHonored) =>
        outcome = "rejected" /\ error = "ResizeUnachievable"

\* C8 as stated: one resize request issues at most 3 setSize calls.
C8_AbandonedAfterThreeAttempts ==
    setSizeCalls <= 3

\* C8 as amended: one resize request issues at most 4 setSize calls (the first
\* attempt and 3 retries), and it is abandoned only after 4 attempts that each
\* left the window at another size than the requested one.
C8_AbandonedAfterFourAttempts ==
    /\ setSizeCalls <= 4
    /\ (pc = "measure" /\ lastRequest = "abandoned") =>
          setSizeCalls = 4 /\ ~SameSize(windowSize, requiredBrowserSize)
    /\ (pc = "setSize" /\ setSizeCalls > 0) =>
          ~SameSize(windowSize, requiredBrowserSize)

C8_Witness ==
    pc = "measure" /\ lastRequest = "abandoned" /\ setSizeCalls = 4

\* C9: if the first measured viewport size is the requested size, setViewportSize
\* resolves at once: after one measurement, without a window setPosition, getSize
\* or setSize call, and nothing more runs.
C9_AlreadyMatchingSucceedsAtOnce ==
    (nMeasure = 1 /\ SameSize(actualViewportSize, requiredSize)) =>
        /\ outcome = "resolved" /\ pc = "done"
        /\ ~movedWindow /\ ~readWindow
        /\ nRequests = 0 /\ setSizeCalls = 0
        /\ ~ENABLED SizerNext

C9_Witness ==
    /\ nMeasure = 1 /\ outcome = "resolved"
    /\ actualViewportSize = Size(1024, 768)

\* C10: the first resize request is the window size plus, on each axis, the
\* required viewport minus the measured viewport (1050x800 with a viewport of
\* 1000x700 and a target of 1024x768 gives 1074x868); and if the viewport measured
\* after it is the target, setViewportSize resolves after two measurements and one
\* resize request.
C10_CoarseResizeRequest ==
    /\ (phase = "coarse1" /\ pc \in {"setSize", "getSize", "measure"}) =>
          /\ requiredBrowserSize.width =
                browserSize.width + (requiredSize.width - actualViewportSize.width)
          /\ requiredBrowserSize.height =
                browserSize.height + (requiredSize.height - actualViewportSize.height)
          /\ (/\ requiredSize = Size(1024, 768)
              /\ actualViewportSize = Size(1000, 700)
              /\ browserSize = Size(1050, 800)) =>
                requiredBrowserSize = Size(1074, 868)
    /\ (phase = "coarse1" /\ nMeasure = 2
        /\ SameSize(actualViewportSize, requiredSize)) =>
          outcome = "resolved" /\ pc = "done" /\ nRequests = 1

C10_Witness ==
    /\ outcome = "resolved" /\ nMeasure = 2 /\ nRequests = 1
    /\ browserSize = Size(1050, 800)
    /\ requiredBrowserSize = Size(1074, 868)
    /\ actualViewportSize = Size(1024, 768)

\* C20: getSubRegions throws, and gives no tile, whenever the tile width or the
\* tile height is not positive, under the fixed-size and the varying-size policy
\* and for every container region.
C20_NonPositiveTileSizeThrows ==
    (tilerPc = "returned" /\ (subRegionSize.width <= 0 \/ subRegionSize.height <= 0)) =>
        tilerThrew /\ subRegions = <<>>

C20_Witness ==
    /\ tilerPc = "returned" /\ tilerThrew /\ isFixedSize
    /\ subRegionSize = Size(2, 0)
    /\ containerRegion = Region(0, 0, 3, 3)
    /\ subRegions = <<>>

\* C16: an operation whose decode failed is settled with that failure: it is
\* never left pending; and the image's bytes, size and parsed flag are unchanged.
C16_DecodeFailureSettles ==
    \A i \in 1..Len(calls) :
        (calls[i].bytes /= <<>> /\ ~calls[i].bytes[1].decodable) =>
            /\ calls[i].pc /= "hung"
            /\ imageBuffer = calls[i].bytes /\ ~isParsed /\ imageBmp = <<>>

\* C17: a step that starts scaleImage(1) or rotateImage(0) invokes no decode and
\* leaves the encoded bytes, the pixel grid, the width, the height and the parsed
\* flag as they were; it starts no pending work.
C17_ScaleOneRotateZeroAreNoOps ==
    [][(/\ nOps' = nOps + 1
        /\ \/ lastOp'.name = "scaleImage" /\ lastOp'.ratio = 1
           \/ lastOp'.name = "rotateImage" /\ lastOp'.degrees = 0) =>
          UNCHANGED <<imageBuffer, imageBmp, imageWidth, imageHeight, isParsed,
                      parseCalls, calls>>]_vars

C17_Witness ==
    /\ nOps = 1 /\ lastOp = Op("rotateImage", NoRegion, 1, 0)
    /\ ~disabled /\ ~isParsed /\ parseCalls = 0
    /\ imageBuffer = <<Encoded(Grid(4, 2, 0, 0))>>

\* The place of x in the sequence order.
PositionIn(order, x) == CHOOSE n \in 1..Len(order) : order[n] = x

\* The elements of seq occur in the order given.
InOrder(seq, order) ==
    \A i, j \in 1..Len(seq) :
        i < j => PositionIn(order, seq[i]) < PositionIn(order, seq[j])

Attempted(step) == \E i \in 1..Len(restorations) : restorations[i] = step

\* C11: tiling (a part being processed, a part in the parts list, a stitched
\* screenshot) happens only in a full page or frame/element capture whose origin
\* image is narrower or shorter than the entire page.
C11_TilingOnlyWhenNeeded ==
    (shotPc = "tiling" \/ partPc /= <<>> \/ parts /= <<>> \/ screenshot.stitched) =>
        /\ fullPage \/ checkFrameOrElement
        /\ \/ imageObject.width < entirePageSize.width
           \/ imageObject.height < entirePageSize.height

C11_Witness ==
    /\ shotOutcome = "resolved" /\ fullPage
    /\ entirePageSize = ViewportSize /\ imageObject = ViewportSize
    /\ partPc = <<>> /\ parts = <<>> /\ ~screenshot.stitched

\* C12: a failed getEntireSize leaves the viewport size as the entire page size and
\* a failed pixel ratio measurement leaves 1; after either step, failed or not,
\* getScreenshot is pending at the step that follows.
C12_MeasurementFailuresDefault ==
    [][/\ shotPc = "getEntireSize" =>
            /\ shotPc' = "getDevicePixelRatio" /\ shotOutcome' = "pending"
            /\ "entirePageSize" \in defaulted' => entirePageSize' = ViewportSize
       /\ shotPc = "getDevicePixelRatio" =>
            /\ shotPc' = "hideScrollbars" /\ shotOutcome' = "pending"
            /\ "pixelRatio" \in defaulted' => pixelRatio' = 1
            /\ entirePageSize' = entirePageSize]_vars

C12_Witness ==
    /\ shotOutcome = "resolved"
    /\ defaulted = {"entirePageSize", "pixelRatio"}
    /\ pageSize /= ViewportSize /\ entirePageSize = ViewportSize /\ pixelRatio = 1

C14_RestorationsIndependent ==
    (shotPc = "done" /\ restorations /= <<>>) =>
        /\ hideScrollbars => Attempted("overflow")
        /\ Truthy(originalBodyOverflow) => Attempted("bodyOverflow")
        /\ fullPage => Attempted("state")

\* C15: the parts are processed one at a time in the order of the tiler, which is
\* row by row and left to right: at most one call of a part is in flight, a part is
\* started only when all parts before it are in the parts list, and the n-th entry
\* of the parts list is the n-th tile, the origin tile first.
C15_PartsOneAtATimeInRasterOrder ==
    /\ PartCallsInFlight <= 1
    /\ \A k \in 1..Len(partPc) :
          partPc[k] /= "waiting" => \A j \in 1..(k - 1) : partPc[j] = "done"
    /\ Len(parts) = Cardinality({k \in 1..Len(partPc) : partPc[k] = "done"})
    /\ \A n \in 1..Len(parts) : parts[n].of = n
    /\ parts /= <<>> =>
          /\ parts[1].position = Point(0, 0)
          /\ screenshotParts[1].left = 0 /\ screenshotParts[1].top = 0
    /\ \A i, j \in 1..Len(screenshotParts) :
          i < j => \/ screenshotParts[i].top < screenshotParts[j].top
                   \/ /\ screenshotParts[i].top = screenshotParts[j].top
                      /\ screenshotParts[i].left < screenshotParts[j].left

C15_Witness ==
    /\ shotOutcome = "resolved" /\ screenshot.stitched
    /\ Len(screenshotParts) = 3 /\ Len(parts) = 3
    /\ parts[3].of = 3

\* C18 as stated: getScreenshot never fails because the position provider ended up
\* at another offset than the one requested.
C18_ScrollFailureNeverFatal ==
    shotError /= "Could not scroll to the x/y corner of the screen"

\* C18 as amended: a part other than the origin part is recorded at the offset the
\* position provider reached, whatever offset was requested, and that never fails
\* getScreenshot; but a full page capture goes on past its initial scroll only from
\* offset (0, 0), and fails with "Could not scroll to the x/y corner of the screen"
\* only at that step.
C18_TileScrollShortfallIsRecorded ==
    /\ \A k \in 1..Len(partPc) : partPc[k] = "capture" => currentPosition[k] = scrollPosition
    /\ \A n \in 1..Len(parts) :
          ~(screenshotParts[parts[n].of].left = 0 /\ screenshotParts[parts[n].of].top = 0)
              => parts[n].position = currentPosition[parts[n].of]
    /\ (fullPage /\ shotPc \in {"resolveRegion", "captureOrigin", "tilingDecision"}) =>
          scrollPosition = Point(0, 0)
    /\ shotError = "Could not scroll to the x/y corner of the screen" =>
          /\ fullPage /\ shotOutcome = "rejected" /\ scrollPosition /= Point(0, 0)
          /\ imageObject = Size(0, 0) /\ partPc = <<>>

C18_Witness ==
    /\ shotOutcome = "resolved" /\ screenshot.stitched
    /\ \E n \in 1..Len(parts) :
          /\ screenshotParts[parts[n].of].top = 60
          /\ parts[n].position = Point(0, 40)

\* C19: when every collaborator call settles, getScreenshot eventually resolves or
\* rejects.
C19_AlwaysSettles ==
    <>(shotOutcome \in {"resolved", "rejected"})

\* C21 as stated: the stepwise search issues at most |widthDiff| x |heightDiff| x 2
\* nudge resize requests, widthDiff and heightDiff being the discrepancies measured
\* when the search is entered, also when one of them is 0.
C21_NudgesWithinProductOfDiffs ==
    phase = "zoom" => nudges <= Abs(widthDiff) * Abs(heightDiff) * 2

\* C21 as amended: the stepwise search issues at most 2 x w x h nudge resize
\* requests, where w is |widthDiff| and h is |heightDiff|, a discrepancy of 0
\* counting as 1.
C21_NudgesWithinBudget ==
    phase = "zoom" =>
        /\ Abs(widthDiff) <= 3 /\ Abs(heightDiff) <= 3
        /\ nudges <= Max(Abs(widthDiff), 1) * Max(Abs(heightDiff), 1) * 2

C21_Witness ==
    /\ phase = "zoom" /\ pc = "done" /\ outcome = "rejected"
    /\ widthDiff = 0 /\ heightDiff = 2
    /\ nudges = 4

\* The callback of window().getSize() at the end of the second coarse attempt has
\* run: it recorded the discrepancies, of which one at least is not 0.
ZoomDecisionTaken == widthDiff /= 0 \/ heightDiff /= 0

\* C22: the stepwise search is entered only after two coarse resize requests and
\* with a discrepancy of at most 3 px on both axes; with more than 3 px on either
\* axis setViewportSize fails, with no nudge issued and nothing more running.
C22_SearchOnlyWithinMaxDiff ==
    /\ pc = "zoomGetSize" => phase = "coarse2" /\ nRequests = 2 /\ nudges = 0
    /\ phase = "zoom" =>
          /\ ZoomDecisionTaken
          /\ Abs(widthDiff) <= 3 /\ Abs(heightDiff) <= 3
    /\ (ZoomDecisionTaken /\ (Abs(widthDiff) > 3 \/ Abs(heightDiff) > 3)) =>
          /\ phase = "coarse2"
          /\ pc = "done" /\ outcome = "rejected"
          /\ error = "Failed to set viewport size!"
          /\ nRequests = 2 /\ nudges = 0
          /\ ~ENABLED SizerNext

\* The search refused with one axis within 3 px and the other beyond.
C22_Witness ==
    /\ pc = "done" /\ outcome = "rejected" /\ nudges = 0
    /\ Abs(widthDiff) <= 3 /\ Abs(heightDiff) > 3

\* The change a nudge makes on one axis agrees with the viewport measured last:
\* none if it is the target, at most 1 px of shrinking if it is too large, at most
\* 1 px of growing if it is too small.
ReducesDiscrepancy(measured, target, change) ==
    /\ measured = target => change = 0
    /\ measured > target => change \in {-1, 0}
    /\ measured < target => change \in {0, 1}

\* C23: every nudge of the stepwise search moves the candidate window size, on
\* each axis it changes, by exactly 1 px in the direction that reduces the
\* discrepancy between the viewport measured last and the target; an axis whose
\* measured size is the target is not changed.
C23_NudgesReduceDiscrepancy ==
    [][(pc = "setWindowSize" /\ pc' = "setSize") =>
          /\ requiredBrowserSize' = Size(browserSize.width + currWidthChange',
                                         browserSize.height + currHeightChange')
          /\ ReducesDiscrepancy(actualViewportSize.width, requiredSize.width,
                                currWidthChange' - currWidthChange)
          /\ ReducesDiscrepancy(actualViewportSize.height, requiredSize.height,
                                currHeightChange' - currHeightChange)]_vars

\* C24: a run of setViewportSize in which no driver call fails ends, resolved or
\* rejected; it issues at most two coarse resize requests, then at most the
\* stepwise budget of nudges, and each request calls setSize at most 4 times.
C24_TerminatesWithinBudget ==
    /\ [](/\ phase = "coarse1" => nRequests <= 1 /\ nudges = 0
          /\ phase = "coarse2" => nRequests <= 2 /\ nudges = 0
          /\ phase = "zoom" =>
                nudges <= Max(Abs(widthDiff), 1) * Max(Abs(heightDiff), 1) * 2
          /\ nudges <= 18
          /\ setSizeCalls <= 4
          /\ pc = "done" => ~ENABLED SizerNext)
    /\ [](outcome /= "hung") => <>(pc = "done" /\ outcome \in {"resolved", "rejected"})

\* A run without a failed call that used both coarse requests and the whole budget.
C24_Witness ==
    /\ pc = "done" /\ outcome = "rejected" /\ phase = "zoom"
    /\ nRequests >= 3
    /\ widthDiff = 1 /\ heightDiff = 0
    /\ nudges = 2

\* C25: a driver call that fails after the first viewport measurement makes the
\* promise of setViewportSize reject: once no callback of the run is left to
\* run, the promise is settled, never pending.
C25_LaterFailuresReject ==
    (pc = "done" /\ nMeasure >= 1) => outcome \in {"resolved", "rejected"}

\* C26: when the first measurement does not match, the window is moved to (0,0)
\* before the first window getSize and resize request; a move that fails does not
\* fail the sizer: the run goes on to the resize, and a run in which no other call
\* failed ends only after a resize request and a second measurement.
C26_MoveFailureNotFatal ==
    /\ [][pc = "setPosition" =>
            /\ pc' = "getBrowserSize" /\ outcome' = "pending"
            /\ movedWindow' /\ ~readWindow' /\ nRequests' = 0]_vars
    /\ []((readWindow \/ nRequests > 0) => movedWindow)
    /\ []((moveFailed /\ pc = "done" /\ outcome /= "hung") =>
              /\ nRequests >= 1 /\ nMeasure >= 2
              /\ lastRequest /= "none")

\* The move failed and the run resolved after one resize and a second measurement.
C26_Witness ==
    /\ moveFailed /\ outcome = "resolved"
    /\ nRequests = 1 /\ nMeasure = 2 /\ lastRequest = "honored"

\* C27: for every tile but the one at (0,0), getScreenshot calls setPosition with
\* the tile's (left, top), then getCurrentPosition, then captures the viewport,
\* and records the captured image with the position it read back; for the tile at
\* (0,0) it calls neither and records the origin image at (0,0).
C27_TileStepsInOrder ==
    [][\A k \in 1..Len(partPc) :
          partPc'[k] /= partPc[k] =>
             IF screenshotParts[k].left = 0 /\ screenshotParts[k].top = 0
               THEN /\ partPc[k] = "waiting" /\ partPc'[k] = "done"
                    /\ parts' = Append(parts, [size |-> imageObject,
                                               position |-> Point(0, 0), of |-> k])
                    /\ scrollPosition' = scrollPosition
               ELSE \/ /\ partPc[k] = "waiting" /\ partPc'[k] = "setPosition"
                       /\ parts' = parts /\ scrollPosition' = scrollPosition
                    \/ /\ partPc[k] = "setPosition"
                       /\ partPc'[k] = "getCurrentPosition"
                       /\ scrollPosition' \in
                             Achieved(Point(screenshotParts[k].left,
                                            screenshotParts[k].top))
                       /\ parts' = parts
                    \/ /\ partPc[k] = "getCurrentPosition" /\ partPc'[k] = "capture"
                       /\ currentPosition'[k] = scrollPosition
                       /\ parts' = parts /\ scrollPosition' = scrollPosition
                    \/ /\ partPc[k] = "capture" /\ partPc'[k] = "done"
                       /\ parts' = Append(parts, [size |-> CapturedSize,
                                                  position |-> currentPosition[k],
                                                  of |-> k])
                       /\ scrollPosition' = scrollPosition
                    \/ /\ partPc[k] \in {"setPosition", "getCurrentPosition", "capture"}
                       /\ partPc'[k] = "hung"
                       /\ parts' = parts /\ scrollPosition' = scrollPosition]_vars

\* The first two tiles of a 100x150 page are recorded: the origin image at (0,0)
\* and the capture of the tile at (0,60) at the position read back, (0,40).
C27_Witness ==
    /\ Len(parts) = 2 /\ partPc[1] = "done" /\ partPc[2] = "done"
    /\ parts[1] = [size |-> imageObject, position |-> Point(0, 0), of |-> 1]
    /\ screenshotParts[2] = Region(0, 60, 100, 60)
    /\ currentPosition[2] = Point(0, 40)
    /\ parts[2] = [size |-> ViewportSize, position |-> Point(0, 40), of |-> 2]

\* The least number of pieces of length piece that cover length.
PiecesToCover(length, piece) == (length + piece - 1) \div piece

\* C28: when getScreenshot tiles, the tiles are the non-overlapping grid over
\* (0, 0, entirePageSize.width, entirePageSize.height) with columns of the origin
\* image's width and rows of max(origin image height - 50, 10), clipped at the
\* right and bottom edges; one tile alone is the origin tile, so a stitched
\* screenshot took one capture less than there are tiles.
C28_TilesOfThePageGrid ==
    tilingRan =>
        LET w == imageObject.width
            h == Max(imageObject.height - 50, 10)
            tiles == screenshotParts
            fresh == {n \in 1..Len(parts) :
                         tiles[parts[n].of].left /= 0 \/ tiles[parts[n].of].top /= 0}
        IN
        /\ Len(tiles) = PiecesToCover(entirePageSize.width, w)
                            * PiecesToCover(entirePageSize.height, h)
        /\ \A k \in 1..Len(tiles) :
              /\ 0 <= tiles[k].left /\ tiles[k].left < entirePageSize.width
              /\ 0 <= tiles[k].top /\ tiles[k].top < entirePageSize.height
              /\ tiles[k].left % w = 0 /\ tiles[k].top % h = 0
              /\ tiles[k].width = Min(w, entirePageSize.width - tiles[k].left)
              /\ tiles[k].height = Min(h, entirePageSize.height - tiles[k].top)
        /\ \A j, k \in 1..Len(tiles) :
              j /= k => tiles[j].left /= tiles[k].left \/ tiles[j].top /= tiles[k].top
        /\ Cardinality({k \in 1..Len(tiles) :
                           tiles[k].left = 0 /\ tiles[k].top = 0}) = 1
        /\ Cardinality(fresh) <= Len(tiles) - 1
        /\ screenshot.stitched => Cardinality(fresh) = Len(tiles) - 1

\* A stitched screenshot whose tile height is the minimum, 10: an origin image of
\* 100x12 on a page of 160x20 gives 4 tiles and 3 more captures.
C28_Witness ==
    /\ tilingRan /\ screenshot.stitched /\ shotPc = "restoreOverflow"
    /\ imageObject = Size(100, 12) /\ entirePageSize = Size(160, 20)
    /\ screenshotParts = <<Region(0, 0, 100, 10), Region(100, 0, 60, 10),
                           Region(0, 10, 100, 10), Region(100, 10, 60, 10)>>
    /\ Len(parts) = 4

\* The calls of one viewport capture, in the order of the chain.
CaptureOrder ==
    <<"sleep", "takeScreenshot", "saveImage original", "cut", "getSize",
      "cropImage", "saveImage cropped", "scaleImage", "saveImage scaled",
      "rotateImage", "getSize again", "getCurrentScrollPosition">>

Made(call) == \E i \in 1..Len(callsMade) : callsMade[i] = call

\* C29: a viewport capture makes its calls in one fixed order, each after the one
\* before it has settled: the settle delay, takeScreenshot, the cut if there is a
\* cut provider, the size for the rotation decision (the automatic degrees only if
\* isLandscape, automaticRotation and an image taller than wide) and the scale
\* ratio, the crop to the region scaled by 1 / scaleRatio if there is a region, the
\* scale if the ratio is not 1, the rotation if the degrees are not 0, and the
\* tagging with the scroll position if the image fits the viewport.
C29_CaptureStepsInFixedOrder ==
    /\ [](/\ InOrder(callsMade, CaptureOrder)
          /\ callInFlight /= "" => callsMade[Len(callsMade)] = callInFlight
          /\ captureOutcome = "resolved" =>
                /\ Made("sleep") /\ Made("takeScreenshot")
                /\ Made("getSize") /\ Made("getSize again")
                /\ Made("cut") <=> captureArgs.cutProvider
                /\ Made("cropImage") <=> captureArgs.regionInScreenshot /= <<>>
                /\ scaleRatioInverse = IF captureArgs.scaleProvider = 0
                                         THEN 1 ELSE captureArgs.scaleProvider
                /\ Made("cropImage") =>
                      LET r == captureArgs.regionInScreenshot[1]
                          n == scaleRatioInverse
                      IN scaledRegion =
                            <<Region(r.left * n, r.top * n, r.width * n, r.height * n)>>
                /\ Made("scaleImage") <=> scaleRatioInverse /= 1
                /\ Made("rotateImage") <=> rotationDegrees /= 0
                /\ Made("getCurrentScrollPosition") <=>
                      /\ mutableImage[1].width <= captureArgs.viewportSize.width
                      /\ mutableImage[1].height <= captureArgs.viewportSize.height
                /\ Made("getCurrentScrollPosition") <=> coordinates /= <<>>)
    /\ [][/\ callsMade' /= callsMade =>
                /\ callInFlight = ""
                /\ callsMade' = Append(callsMade, callInFlight')
          /\ (capturePc = "decide" /\ capturePc' = "saveCropped") =>
                rotationDegrees' =
                    IF /\ captureArgs.isLandscape /\ captureArgs.automaticRotation
                       /\ mutableImage[1].height > mutableImage[1].width
                      THEN captureArgs.automaticRotationDegrees
                      ELSE captureArgs.rotationDegrees]_vars

\* A capture of 8x12 that is cut to 8x10, found taller than wide and so rotated
\* by the automatic -90, cropped to the region doubled, halved, and tagged.
C29_Witness ==
    /\ captureOutcome = "resolved"
    /\ rawSize = Size(8, 12) /\ captureArgs.rotationDegrees = 0
    /\ rotationDegrees = -90
    /\ scaledRegion = <<Region(0, 2, 4, 4)>>
    /\ callsMade = <<"sleep", "takeScreenshot", "cut", "getSize", "cropImage",
                     "scaleImage", "rotateImage", "getSize again",
                     "getCurrentScrollPosition">>
    /\ mutableImage = <<Size(2, 2)>>
    /\ coordinates = <<Point(0, 3)>>

\* C30: after a getScreenshot that hid the scrollbars has resolved, the overflow
\* style of the document element and the one of the body are what they were
\* before the capture, the empty string included.
C30_OverflowStylesRestored ==
    (shotPc = "done" /\ shotOutcome = "resolved" /\ hideScrollbars) =>
        /\ docOverflow = preDocOverflow
        /\ bodyOverflow = preBodyOverflow

\* C31: after getScreenshot has resolved, the scroll position of the position
\* provider is what it was before the capture, also for a frame or element check
\* that is not a full page screenshot and was tiled.
C31_ScrollStateRestored ==
    (shotPc = "done" /\ shotOutcome = "resolved") =>
        scrollPosition = preScrollPosition

\* the size of a capture: the resolved region if a frame or element is checked and
\* a region was resolved, the viewport otherwise
ExpectedCaptureSize ==
    IF checkFrameOrElement /\ hasRegionProvider
      THEN RegionSize(regionInScreenshot[1])
      ELSE ViewportSize

\* C32: with a region provider the region is resolved before the tiling decision and
\* before the position provider is moved to a tile (it is assigned once, in the step
\* before the capture of the origin tile, while no tile has been processed, and
\* never changes afterwards); the origin tile and every later tile are cropped to it
\* if checkFrameOrElement is set and are whole viewport captures otherwise.
C32_RegionResolvedBeforeTiling ==
    /\ [](/\ (shotPc = "tilingDecision" \/ tilingRan) =>
                 (regionInScreenshot /= <<>>) = hasRegionProvider
          /\ (\E k \in 1..Len(partPc) : partPc[k] /= "waiting") =>
                 (regionInScreenshot /= <<>>) = hasRegionProvider
          /\ imageObject /= Size(0, 0) => imageObject = ExpectedCaptureSize
          /\ \A i \in 1..Len(parts) : parts[i].size = ExpectedCaptureSize)
    /\ [][regionInScreenshot' /= regionInScreenshot =>
              /\ shotPc = "resolveRegion"
              /\ regionInScreenshot = <<>>
              /\ partPc = <<>> /\ ~tilingRan
              /\ scrollPosition' = scrollPosition]_vars

\* a tiled frame or element check finished with the region resolved and two tiles
\* cropped to it
C32_Witness ==
    /\ shotPc = "done" /\ shotOutcome = "resolved"
    /\ checkFrameOrElement /\ regionInScreenshot /= <<>>
    /\ tilingRan /\ Len(parts) >= 2
    /\ \A i \in 1..Len(parts) : parts[i].size = RegionSize(regionInScreenshot[1])

\* C33: a step that completes cropImage, scaleImage (ratio /= 1) or rotateImage
\* (degrees /= 0) leaves the image decoded, with no cached encoded bytes, with the
\* transformed grid as its pixel grid and with that grid's dimensions as its width
\* and height.
C33_TransformDecodesAndInvalidates ==
    [][\A i \in 1..Len(calls) :
          (calls' = Settle(i) /\ IsTransform(calls[i].op)) =>
              /\ isParsed'
              /\ imageBuffer' = <<>>
              /\ imageBmp /= <<>>
              /\ imageBmp' = <<Transformed(calls[i].op, imageBmp[1])>>
              /\ imageWidth' = imageBmp'[1].width
              /\ imageHeight' = imageBmp'[1].height]_vars

\* C34: an image built from encoded bytes always has a representation: the encoded
\* bytes are present or the image is decoded and has its pixel grid; the bytes are
\* absent only in states where the decoded grid is there to encode them from.
C34_SomeRepresentationPresent ==
    /\ imageBuffer /= <<>> \/ (isParsed /\ imageBmp /= <<>>)
    /\ isParsed => imageBmp /= <<>>

\* a crop has completed and dropped the bytes of a decoded image, and an encode has
\* brought them back
C34_Witness ==
    /\ isParsed /\ imageBmp /= <<>> /\ imageBmp[1].edits = 1
    /\ imageBuffer = <<Encoded(imageBmp[1])>>
    /\ calls = <<>> /\ nOps = 2 /\ lastOp.name = "getImageBuffer"

\* C35: a step that answers getSize, getWidth or getHeight starts no decode and
\* leaves the parsed flag, the pixel grid and the bytes as they were; on an image
\* that is not decoded it answers with the dimensions in the header of the encoded
\* bytes, and after a completed transform (the operation before it was a crop, a
\* scale or a rotation and no call is pending) it answers with the dimensions of
\* the transformed grid.
C35_SizeQueries ==
    [][(nOps' = nOps + 1 /\ lastOp'.name = "getSize") =>
          /\ UNCHANGED <<isParsed, imageBmp, imageBuffer, parseCalls, calls>>
          /\ ~isParsed =>
                 /\ imageWidth' = imageBuffer[1].width
                 /\ imageHeight' = imageBuffer[1].height
          /\ (IsTransform(lastOp) /\ ~ReturnsAtOnce(lastOp) /\ calls = <<>>) =>
                 /\ isParsed /\ imageBmp[1].edits >= 1
                 /\ imageWidth' = imageBmp[1].width
                 /\ imageHeight' = imageBmp[1].height]_vars

\* C40: once the encodes and the transforms called on an image have all completed,
\* the cached encoded bytes of a decoded image are absent or are the encoding of
\* its current pixel grid (stated for the images that were decoded once only, so
\* that nothing but encodes and transforms have been interleaved).
C40_BytesNeverStale ==
    (calls = <<>> /\ isParsed /\ parseCalls = 1 /\ imageBuffer /= <<>>) =>
        imageBuffer[1] = Encoded(imageBmp[1])

\* C36: fixed-size tiling of a region with a tile size that fits in it (positive
\* and at most the region, in both dimensions) returns tiles of exactly the tile
\* size that all lie in the region and together cover it, so that the last tile
\* of a row or column ends on the far edge of the region; the tiles come row by
\* row from top to bottom, and left to right in a row.
C36_FixedTilesCoverInRasterOrder ==
    (/\ tilerPc = "returned" /\ isFixedSize
     /\ 0 < subRegionSize.width /\ subRegionSize.width <= containerRegion.width
     /\ 0 < subRegionSize.height /\ subRegionSize.height <= containerRegion.height) =>
        /\ ~tilerThrew
        /\ \A t \in Tiles :
              /\ Pixels(t) \subseteq Pixels(containerRegion)
              /\ t.width = subRegionSize.width /\ t.height = subRegionSize.height
        /\ UNION {Pixels(t) : t \in Tiles} = Pixels(containerRegion)
        /\ \E t \in Tiles :
              /\ t.left + t.width = containerRegion.left + containerRegion.width
              /\ t.top + t.height = containerRegion.top + containerRegion.height
        /\ subRegions[1].left = containerRegion.left
        /\ subRegions[1].top = containerRegion.top
        /\ \A i \in 1..(Len(subRegions) - 1) :
              \/ /\ subRegions[i + 1].top = subRegions[i].top
                 /\ subRegions[i + 1].left > subRegions[i].left
              \/ /\ subRegions[i + 1].top > subRegions[i].top
                 /\ subRegions[i + 1].left = containerRegion.left
                 /\ subRegions[i].left + subRegions[i].width
                        = containerRegion.left + containerRegion.width

\* a 3x3 region tiled by 2x2: the second tile of each row and the second row are
\* shifted back by one
C36_Witness ==
    /\ tilerPc = "returned" /\ isFixedSize
    /\ containerRegion = Region(-1, 2, 3, 3)
    /\ subRegionSize = Size(2, 2)
    /\ subRegions = <<Region(-1, 2, 2, 2), Region(0, 2, 2, 2),
                      Region(-1, 3, 2, 2), Region(0, 3, 2, 2)>>

\* C37: no region has a negative width or height, neither the region the
\* operations are applied to (after its construction and after offset, scale by a
\* non-negative ratio and intersect) nor a sub-region returned by getSubRegions;
\* and a step that intersects the region with one it is not intersected with
\* leaves it the EMPTY region, all fields zero.
C37_RegionSizesNeverNegative ==
    /\ [](/\ thisRegion /= <<>> =>
                 thisRegion[1].width >= 0 /\ thisRegion[1].height >= 0
          /\ \A i \in 1..Len(regionParts) :
                 regionParts[i].width >= 0 /\ regionParts[i].height >= 0)
    /\ [][\A other \in OtherRegions :
             (/\ regionOps' = regionOps + 1
              /\ lastRegionOp' = RegionOp("intersect", other)
              /\ ~IsIntersected(thisRegion[1], other)) =>
                 thisRegion' = <<Region(0, 0, 0, 0)>>]_vars

\* a region moved away from another one and intersected with it: it is EMPTY
C37_Witness ==
    /\ regionOps = 2
    /\ lastRegionOp = RegionOp("intersect", Region(5, 5, 1, 1))
    /\ thisRegion = <<Region(0, 0, 0, 0)>>

\* C38: when the driver calls succeed, the step that compares the window size read
\* back after a setSize never rejects: setBrowserSize gives true exactly if the
\* size read equals the requested size in both dimensions, and no setSize
\* follows; it gives false exactly if the sizes differ and this was the fourth
\* attempt (the first one and three retries); otherwise one more setSize is made.
\* A request makes at most four setSize calls.
C38_BrowserSizeOutcome ==
    /\ [](setSizeCalls <= 4)
    /\ [][(pc = "getSize" /\ outcome' /= "hung") =>
             /\ outcome' = outcome
             /\ SameSize(windowSize, requiredBrowserSize) =>
                   lastRequest' = "honored" /\ pc' = "measure"
             /\ (~SameSize(windowSize, requiredBrowserSize) /\ setSizeCalls = 4) =>
                   lastRequest' = "abandoned" /\ pc' = "measure"
             /\ (~SameSize(windowSize, requiredBrowserSize) /\ setSizeCalls < 4) =>
                   lastRequest' = lastRequest /\ pc' = "setSize"
             /\ pc' = "measure" => setSizeCalls' = setSizeCalls]_vars

\* a request the browser honored at its second attempt
C38_Witness ==
    /\ pc = "measure" /\ lastRequest = "honored" /\ setSizeCalls = 2
    /\ SameSize(windowSize, requiredBrowserSize)

\* C39: in the stepwise search every window size requested differs from the window
\* size read when the search was entered by at most |widthDiff| + 1 in width and
\* |heightDiff| + 1 in height, so by at most 4 on each axis; and the change of an
\* axis only ever grows by one step in the direction fixed at entry.
C39_CandidatesNearBaseline ==
    /\ []((phase = "zoom" /\ pc \in {"setSize", "getSize", "measure"}) =>
             /\ requiredBrowserSize =
                    Size(browserSize.width + currWidthChange,
                         browserSize.height + currHeightChange)
             /\ Abs(requiredBrowserSize.width - browserSize.width) <= Abs(widthDiff) + 1
             /\ Abs(requiredBrowserSize.height - browserSize.height)
                    <= Abs(heightDiff) + 1
             /\ Abs(requiredBrowserSize.width - browserSize.width) <= 4
             /\ Abs(requiredBrowserSize.height - browserSize.height) <= 4)
    /\ [][phase = "zoom" =>
             /\ browserSize' = browserSize
             /\ currWidthChange' \in {currWidthChange, currWidthChange + widthStep}
             /\ currHeightChange' \in {currHeightChange, currHeightChange + heightStep}
             /\ widthStep' = widthStep /\ heightStep' = heightStep
             /\ widthStep \in {-1, 1} /\ heightStep \in {-1, 1}]_vars

\* the search has gone one step past the difference on the width
C39_Witness ==
    /\ phase = "zoom" /\ pc = "setSize"
    /\ widthDiff = 1 /\ currWidthChange = -2
    /\ requiredBrowserSize.width = browserSize.width - 2

====
